---------------------------- MODULE Spec2Model ----------------------------
(***************************************************************************)
(* State-machine model of the citizen grievance tracker: the account      *)
(* store, the grievance lifecycle (creation with duplicate detection,     *)
(* status transitions, solution attachment), the admin detail view, and   *)
(* the asynchronous submissions (form, voice pipeline, AI solution) whose *)
(* completions run with the collection captured when they were started.   *)
(***************************************************************************)
EXTENDS Integers, Sequences, FiniteSets, TLC

(* ---------------------------------------------------------------------- *)
(* Bounds of the model                                                      *)
(* ---------------------------------------------------------------------- *)
\* Writes of the grievance collection (setGrievances calls) in a behaviour,
\* made or still to be made by the handlers suspended at an await.
MaxRevisions == 2
\* Length of the strings on which stringSimilarity is evaluated on its own.
MaxLen == 3
\* Position requests of the voice modal that are not yet answered.
MaxPositionRequests == 1

(* ---------------------------------------------------------------------- *)
(* types.ts                                                                 *)
(* ---------------------------------------------------------------------- *)
\* An optional field that is absent (JavaScript undefined).
Undefined == "<undefined>"
\* misuseStrikes?: number, absent.
NoStrikes == -1

FILED == "Complaint Filed"
UNDER_REVIEW == "Under Review"
APPROVED == "Approved"
REJECTED == "Rejected"

CITIZEN == "Citizen"
ADMIN == "Admin"

(* ---------------------------------------------------------------------- *)
(* constants.ts                                                             *)
(* ---------------------------------------------------------------------- *)
DEPARTMENTS ==
    << "Public Works Department", "Water Supply and Sanitation", "Electricity Board",
       "Municipal Corporation", "Transport Department", "Healthcare Services",
       "Education Department", "Law and Order" >>

MOCK_USER_CITIZEN ==
    [name |-> "Jane Doe", email |-> "jane.doe@example.com", role |-> CITIZEN,
     department |-> Undefined, phone |-> "1234567890", password |-> Undefined,
     misuseStrikes |-> NoStrikes]

MOCK_USER_ADMIN ==
    [name |-> "Admin John Smith", email |-> "john.smith@gov-pwd.com", role |-> ADMIN,
     department |-> "Public Works Department", phone |-> Undefined,
     password |-> "admin123", misuseStrikes |-> NoStrikes]

(* ---------------------------------------------------------------------- *)
(* Description texts: the four seeded ones and the ones citizens type.     *)
(* CharsOf gives the characters of a text, which stringSimilarity reads.   *)
(* ---------------------------------------------------------------------- *)
DescSeed1 == "A large pothole on Main Street (near 12th Ave) has been present for over 3 weeks and is causing traffic issues and potential damage to vehicles. It needs immediate repair."
DescSeed2 == "Inconsistent water supply in the Greenfield area for the past week. The water pressure is extremely low, especially during morning hours."
DescSeed3 == "Streetlight on corner of Oak and Pine has been out for a month. It is a safety concern for residents at night."
DescSeed4 == "Garbage has not been collected from our residential area (Bluebell Society) for the last 5 days, leading to unsanitary conditions."
DescPothole == "Pothole on Main Street near 12th Ave"
DescPotholeDup == "pothole on main street near 12th ave!!"
DescLightA == "Streetlight 14 is broken"
DescLightB == "Streetlight 14 is broad!"

CharsOf(s) ==
    CASE s = DescSeed1 ->
         << "A", " ", "l", "a", "r", "g", "e", " ", "p", "o", "t", "h", "o", "l", "e", " ", "o",
            "n", " ", "M", "a", "i", "n", " ", "S", "t", "r", "e", "e", "t", " ", "(", "n", "e",
            "a", "r", " ", "1", "2", "t", "h", " ", "A", "v", "e", ")", " ", "h", "a", "s", " ",
            "b", "e", "e", "n", " ", "p", "r", "e", "s", "e", "n", "t", " ", "f", "o", "r", " ",
            "o", "v", "e", "r", " ", "3", " ", "w", "e", "e", "k", "s", " ", "a", "n", "d", " ",
            "i", "s", " ", "c", "a", "u", "s", "i", "n", "g", " ", "t", "r", "a", "f", "f", "i",
            "c", " ", "i", "s", "s", "u", "e", "s", " ", "a", "n", "d", " ", "p", "o", "t", "e",
            "n", "t", "i", "a", "l", " ", "d", "a", "m", "a", "g", "e", " ", "t", "o", " ", "v",
            "e", "h", "i", "c", "l", "e", "s", ".", " ", "I", "t", " ", "n", "e", "e", "d", "s",
            " ", "i", "m", "m", "e", "d", "i", "a", "t", "e", " ", "r", "e", "p", "a", "i", "r",
            "." >>
      [] s = DescSeed2 ->
         << "I", "n", "c", "o", "n", "s", "i", "s", "t", "e", "n", "t", " ", "w", "a", "t", "e",
            "r", " ", "s", "u", "p", "p", "l", "y", " ", "i", "n", " ", "t", "h", "e", " ", "G",
            "r", "e", "e", "n", "f", "i", "e", "l", "d", " ", "a", "r", "e", "a", " ", "f", "o",
            "r", " ", "t", "h", "e", " ", "p", "a", "s", "t", " ", "w", "e", "e", "k", ".", " ",
            "T", "h", "e", " ", "w", "a", "t", "e", "r", " ", "p", "r", "e", "s", "s", "u", "r",
            "e", " ", "i", "s", " ", "e", "x", "t", "r", "e", "m", "e", "l", "y", " ", "l", "o",
            "w", ",", " ", "e", "s", "p", "e", "c", "i", "a", "l", "l", "y", " ", "d", "u", "r",
            "i", "n", "g", " ", "m", "o", "r", "n", "i", "n", "g", " ", "h", "o", "u", "r", "s",
            "." >>
      [] s = DescSeed3 ->
         << "S", "t", "r", "e", "e", "t", "l", "i", "g", "h", "t", " ", "o", "n", " ", "c", "o",
            "r", "n", "e", "r", " ", "o", "f", " ", "O", "a", "k", " ", "a", "n", "d", " ", "P",
            "i", "n", "e", " ", "h", "a", "s", " ", "b", "e", "e", "n", " ", "o", "u", "t", " ",
            "f", "o", "r", " ", "a", " ", "m", "o", "n", "t", "h", ".", " ", "I", "t", " ", "i",
            "s", " ", "a", " ", "s", "a", "f", "e", "t", "y", " ", "c", "o", "n", "c", "e", "r",
            "n", " ", "f", "o", "r", " ", "r", "e", "s", "i", "d", "e", "n", "t", "s", " ", "a",
            "t", " ", "n", "i", "g", "h", "t", "." >>
      [] s = DescSeed4 ->
         << "G", "a", "r", "b", "a", "g", "e", " ", "h", "a", "s", " ", "n", "o", "t", " ", "b",
            "e", "e", "n", " ", "c", "o", "l", "l", "e", "c", "t", "e", "d", " ", "f", "r", "o",
            "m", " ", "o", "u", "r", " ", "r", "e", "s", "i", "d", "e", "n", "t", "i", "a", "l",
            " ", "a", "r", "e", "a", " ", "(", "B", "l", "u", "e", "b", "e", "l", "l", " ", "S",
            "o", "c", "i", "e", "t", "y", ")", " ", "f", "o", "r", " ", "t", "h", "e", " ", "l",
            "a", "s", "t", " ", "5", " ", "d", "a", "y", "s", ",", " ", "l", "e", "a", "d", "i",
            "n", "g", " ", "t", "o", " ", "u", "n", "s", "a", "n", "i", "t", "a", "r", "y", " ",
            "c", "o", "n", "d", "i", "t", "i", "o", "n", "s", "." >>
      [] s = DescPothole ->
         << "P", "o", "t", "h", "o", "l", "e", " ", "o", "n", " ", "M", "a", "i", "n", " ", "S",
            "t", "r", "e", "e", "t", " ", "n", "e", "a", "r", " ", "1", "2", "t", "h", " ", "A",
            "v", "e" >>
      [] s = DescPotholeDup ->
         << "p", "o", "t", "h", "o", "l", "e", " ", "o", "n", " ", "m", "a", "i", "n", " ", "s",
            "t", "r", "e", "e", "t", " ", "n", "e", "a", "r", " ", "1", "2", "t", "h", " ", "a",
            "v", "e", "!", "!" >>
      [] s = DescLightA ->
         << "S", "t", "r", "e", "e", "t", "l", "i", "g", "h", "t", " ", "1", "4", " ", "i", "s",
            " ", "b", "r", "o", "k", "e", "n" >>
      [] s = DescLightB ->
         << "S", "t", "r", "e", "e", "t", "l", "i", "g", "h", "t", " ", "1", "4", " ", "i", "s",
            " ", "b", "r", "o", "a", "d", "!" >>
      [] s = "Public Works Department" ->
         << "P", "u", "b", "l", "i", "c", " ", "W", "o", "r", "k", "s", " ", "D", "e", "p", "a",
            "r", "t", "m", "e", "n", "t" >>
      [] s = "Water Supply and Sanitation" ->
         << "W", "a", "t", "e", "r", " ", "S", "u", "p", "p", "l", "y", " ", "a", "n", "d", " ",
            "S", "a", "n", "i", "t", "a", "t", "i", "o", "n" >>
      [] s = "Electricity Board" ->
         << "E", "l", "e", "c", "t", "r", "i", "c", "i", "t", "y", " ", "B", "o", "a", "r", "d" >>
      [] s = "Municipal Corporation" ->
         << "M", "u", "n", "i", "c", "i", "p", "a", "l", " ", "C", "o", "r", "p", "o", "r", "a",
            "t", "i", "o", "n" >>
      [] s = "Transport Department" ->
         << "T", "r", "a", "n", "s", "p", "o", "r", "t", " ", "D", "e", "p", "a", "r", "t", "m",
            "e", "n", "t" >>
      [] s = "Healthcare Services" ->
         << "H", "e", "a", "l", "t", "h", "c", "a", "r", "e", " ", "S", "e", "r", "v", "i", "c",
            "e", "s" >>
      [] s = "Education Department" ->
         << "E", "d", "u", "c", "a", "t", "i", "o", "n", " ", "D", "e", "p", "a", "r", "t", "m",
            "e", "n", "t" >>
      [] s = "Law and Order" ->
         << "L", "a", "w", " ", "a", "n", "d", " ", "O", "r", "d", "e", "r" >>
      [] s = "" ->
         << >>
      [] s = "   " ->
         << " ", " ", " " >>
      [] s = " \t\n" ->
         << " ", "\t", "\n" >>
      [] s = "the streetlights on Oak street are broken" ->
         << "t", "h", "e", " ", "s", "t", "r", "e", "e", "t", "l", "i", "g", "h", "t", "s", " ",
            "o", "n", " ", "O", "a", "k", " ", "s", "t", "r", "e", "e", "t", " ", "a", "r", "e",
            " ", "b", "r", "o", "k", "e", "n" >>
      [] s = "electricity board" ->
         << "e", "l", "e", "c", "t", "r", "i", "c", "i", "t", "y", " ", "b", "o", "a", "r", "d" >>
      [] s = "Sanitation Dept" ->
         << "S", "a", "n", "i", "t", "a", "t", "i", "o", "n", " ", "D", "e", "p", "t" >>
      [] s = "Water" ->
         << "W", "a", "t", "e", "r" >>
      [] s = "City Transport Department Office" ->
         << "C", "i", "t", "y", " ", "T", "r", "a", "n", "s", "p", "o", "r", "t", " ", "D", "e",
            "p", "a", "r", "t", "m", "e", "n", "t", " ", "O", "f", "f", "i", "c", "e" >>
      [] s = "Department" ->
         << "D", "e", "p", "a", "r", "t", "m", "e", "n", "t" >>
      [] s = "LAW AND ORDER" ->
         << "L", "A", "W", " ", "A", "N", "D", " ", "O", "R", "D", "E", "R" >>
      [] s = "Parks and Recreation" ->
         << "P", "a", "r", "k", "s", " ", "a", "n", "d", " ", "R", "e", "c", "r", "e", "a", "t",
            "i", "o", "n" >>

\* A history entry: { status, date, notes, rejectionReason? }.
HistoryEntry(status, date, notes, reason) ==
    [status |-> status, date |-> date, notes |-> notes, rejectionReason |-> reason]

INITIAL_GRIEVANCES ==
    << [id |-> "GRV001", complainantName |-> "Alex Ray",
        complainantEmail |-> "alex.ray@example.com", dateFiled |-> "2024-07-15",
        organization |-> "Public Works Department", description |-> DescSeed1,
        status |-> FILED,
        documents |-> << [name |-> "pothole_photo.jpg", content |-> "base64-encoded-image-data"] >>,
        aiSolution |-> Undefined,
        history |-> << HistoryEntry(FILED, "2024-07-15", "Grievance submitted by citizen.", Undefined) >>,
        location |-> << >>],
       [id |-> "GRV002", complainantName |-> "Maria Garcia",
        complainantEmail |-> "maria.g@example.com", dateFiled |-> "2024-07-10",
        organization |-> "Water Supply and Sanitation", description |-> DescSeed2,
        status |-> UNDER_REVIEW, documents |-> << >>, aiSolution |-> Undefined,
        history |-> << HistoryEntry(FILED, "2024-07-10", "Grievance submitted.", Undefined),
                       HistoryEntry(UNDER_REVIEW, "2024-07-11",
                                    "Assigned to engineer for investigation.", Undefined) >>,
        location |-> << >>],
       [id |-> "GRV003", complainantName |-> "Sam Wilson",
        complainantEmail |-> "sam.w@example.com", dateFiled |-> "2024-06-20",
        organization |-> "Electricity Board", description |-> DescSeed3,
        status |-> APPROVED, documents |-> << >>,
        aiSolution |-> "Dispatch a maintenance crew to replace the faulty bulb and inspect the wiring of streetlight #ST-45B at the corner of Oak and Pine. Estimated time for resolution: 2 business days.",
        history |-> << HistoryEntry(FILED, "2024-06-20", "Grievance submitted.", Undefined),
                       HistoryEntry(UNDER_REVIEW, "2024-06-21", "Issue confirmed.", Undefined),
                       HistoryEntry(APPROVED, "2024-06-25",
                                    "Repair work approved and scheduled.", Undefined) >>,
        location |-> << >>],
       [id |-> "GRV004", complainantName |-> "Chen Wei",
        complainantEmail |-> "chen.wei@example.com", dateFiled |-> "2024-07-18",
        organization |-> "Public Works Department", description |-> DescSeed4,
        status |-> FILED, documents |-> << >>, aiSolution |-> Undefined,
        history |-> << HistoryEntry(FILED, "2024-07-18", "Grievance submitted by citizen.", Undefined) >>,
        location |-> << >>] >>

(* ---------------------------------------------------------------------- *)
(* stringSimilarity (Sorensen-Dice over character bigrams)                  *)
(* ---------------------------------------------------------------------- *)
\* Characters matched by \s in the texts of the model.
Whitespace == {" ", "\t", "\n"}

\* String.prototype.toLowerCase on one character.
LowerChar(c) ==
    CASE c = "A" -> "a" [] c = "B" -> "b" [] c = "C" -> "c" [] c = "D" -> "d"
      [] c = "E" -> "e" [] c = "F" -> "f" [] c = "G" -> "g" [] c = "H" -> "h"
      [] c = "I" -> "i" [] c = "J" -> "j" [] c = "K" -> "k" [] c = "L" -> "l"
      [] c = "M" -> "m" [] c = "N" -> "n" [] c = "O" -> "o" [] c = "P" -> "p"
      [] c = "Q" -> "q" [] c = "R" -> "r" [] c = "S" -> "s" [] c = "T" -> "t"
      [] c = "U" -> "u" [] c = "V" -> "v" [] c = "W" -> "w" [] c = "X" -> "x"
      [] c = "Y" -> "y" [] c = "Z" -> "z" [] OTHER -> c

\* a.replace(/\s+/g, '').toLowerCase()
Normalize(cs) ==
    LET kept == SelectSeq(cs, LAMBDA c : c \notin Whitespace)
    IN  [i \in 1..Len(kept) |-> LowerChar(kept[i])]

\* a.substring(i, i + 2), with i counted from 1.
Bigram(s, i) == << s[i], s[i + 1] >>

\* The Map built by the first loop: bigram -> number of occurrences in a.
BigramCounts(a) ==
    LET idx == 1..(Len(a) - 1)
    IN  [bg \in {Bigram(a, i) : i \in idx} |-> Cardinality({i \in idx : Bigram(a, i) = bg})]

\* The second loop: the i-th bigram of b is counted, and one equal bigram of a
\* is consumed, when the Map still holds a positive count for it, that is when
\* fewer equal bigrams of b came before it than a has.
IntersectionSizeNoConsume(counts, b) ==
    Cardinality({i \in 1..(Len(b) - 1) : Bigram(b, i) \in DOMAIN counts})
IntersectionSize(counts, b) ==
    Cardinality({i \in 1..(Len(b) - 1) :
        /\ Bigram(b, i) \in DOMAIN counts
        /\ Cardinality({j \in 1..(i - 1) : Bigram(b, j) = Bigram(b, i)})
              < counts[Bigram(b, i)]})

\* The score as a fraction << numerator, denominator >>; a zero denominator
\* is the 0/0 of the last line, which JavaScript evaluates to NaN.
stringSimilarityByFirstLength(str1, str2) ==
    LET a == Normalize(str1)
        b == Normalize(str2)
    IN  IF Len(a) = 0 /\ Len(b) = 0 THEN << 1, 1 >>
        ELSE IF Len(a) = 0 \/ Len(b) = 0 THEN << 0, 1 >>
        ELSE IF a = b THEN << 1, 1 >>
        ELSE << 2 * IntersectionSize(BigramCounts(a), b), 2 * Len(a) - 2 >>
stringSimilarityOfChars(str1, str2) ==
    LET a == Normalize(str1)
        b == Normalize(str2)
    IN  IF Len(a) = 0 /\ Len(b) = 0 THEN << 1, 1 >>
        ELSE IF Len(a) = 0 \/ Len(b) = 0 THEN << 0, 1 >>
        ELSE IF a = b THEN << 1, 1 >>
        ELSE << 2 * IntersectionSize(BigramCounts(a), b), Len(a) + Len(b) - 2 >>

\* stringSimilarity on two texts of the model, read character by character.
stringSimilarity(ta, tb) == stringSimilarityOfChars(CharsOf(ta), CharsOf(tb))

\* score > 0.85; every comparison with NaN is false.
ExceedsThreshold(score) == score[2] # 0 /\ 100 * score[1] > 85 * score[2]

(* ---------------------------------------------------------------------- *)
(* Helpers over JavaScript values                                           *)
(* ---------------------------------------------------------------------- *)
\* Array.prototype.find: << >> when nothing matches, else << first match >>.
Find(s, Test(_)) ==
    LET hits == {i \in 1..Len(s) : Test(s[i])}
    IN  IF hits = {} THEN << >>
        ELSE << s[CHOOSE i \in hits : \A j \in hits : i <= j] >>

\* String.prototype.toLowerCase on the e-mail addresses of the model.
ToLowerCase(s) ==
    CASE s = "Jane.Doe@example.com" -> "jane.doe@example.com"
      [] s = "Ann.Roy@gov-water.com" -> "ann.roy@gov-water.com"
      [] OTHER -> s

\* new Date().toISOString().split('T')[0]
Today == "2026-10-29"

\* `GRV${String(n).padStart(3, '0')}`
GrievanceIdNoIncrement(n) ==
    LET m == n - 1
    IN  IF m < 10 THEN "GRV00" \o ToString(m)
        ELSE IF m < 100 THEN "GRV0" \o ToString(m)
        ELSE "GRV" \o ToString(m)
GrievanceId(n) ==
    IF n < 10 THEN "GRV00" \o ToString(n)
    ELSE IF n < 100 THEN "GRV0" \o ToString(n)
    ELSE "GRV" \o ToString(n)

\* u.misuseStrikes || 0
Strikes(u) == IF u.misuseStrikes = NoStrikes THEN 0 ELSE u.misuseStrikes

(* ---------------------------------------------------------------------- *)
(* Inputs                                                                   *)
(* ---------------------------------------------------------------------- *)
\* The option texts of the rejection modal, t('rejectionReason...').
rejectionReasonFalse == "rejectionReasonFalse"
\* What the admin selects and types in the rejection modal.
RejectionForms ==
    {[reason |-> r, notes |-> ""] :
        r \in {rejectionReasonFalse, "rejectionReasonDuplicate",
               "rejectionReasonInsufficient", "rejectionReasonOther"}}
      \cup {[reason |-> rejectionReasonFalse, notes |-> "no evidence"]}

\* Registration forms filled in on the login page (citizen portal).
RegistrationForms ==
    { [name |-> "Bob Lee", email |-> "bob@example.com", phone |-> "5550001",
       password |-> Undefined, department |-> Undefined, role |-> CITIZEN],
      [name |-> "Jane Again", email |-> "Jane.Doe@example.com", phone |-> "5550002",
       password |-> Undefined, department |-> Undefined, role |-> CITIZEN] }

\* Login forms: the citizen form sends the phone, the admin form the password.
LoginForms ==
    { [email |-> "Jane.Doe@example.com", role |-> CITIZEN, phone |-> "1234567890", password |-> Undefined],
      [email |-> "bob@example.com", role |-> CITIZEN, phone |-> "5550001", password |-> Undefined],
      [email |-> "bob@example.com", role |-> CITIZEN, phone |-> "0000000", password |-> Undefined],
      [email |-> "john.smith@gov-pwd.com", role |-> ADMIN, phone |-> Undefined, password |-> "admin123"],
      [email |-> "john.smith@gov-pwd.com", role |-> ADMIN, phone |-> Undefined, password |-> "s3cret"] }

\* The registration and the login of an admin of a second department.
AdminRegistrationForms ==
    { [name |-> "Ann Roy", email |-> "Ann.Roy@gov-water.com", phone |-> Undefined,
       password |-> "water123", department |-> DEPARTMENTS[2], role |-> ADMIN] }
AdminLoginForms ==
    { [email |-> "ann.roy@gov-water.com", role |-> ADMIN, phone |-> Undefined,
       password |-> "water123"] }

\* Values typed into the profile forms.
ProfileNames == {"J. Doe"}
ProfileEmails == {"bob@example.com", "Jane.Doe@example.com"}
PasswordForms ==
    { [current |-> "admin123", new |-> "s3cret", confirm |-> "s3cret"],
      [current |-> "wrong", new |-> "s3cret", confirm |-> "s3cret"] }

\* Values of the grievance form and of the voice modal.
FormOrganizations == {DEPARTMENTS[1]}
NoDocuments == << >>
OnePhoto == << [name |-> "photo.jpg", content |-> "data:image/jpeg;base64,AAAA"] >>
FormDrafts ==
    { [description |-> DescPothole, documents |-> NoDocuments],
      [description |-> DescLightA, documents |-> OnePhoto] }
NoLocation == << >>

\* Outcomes of the external AI calls.
SpamVerdicts == {TRUE, FALSE}
Solutions == {"Dispatch a repair crew.", "Resurface the road."}
\* What the generateContent call of parseGrievanceFromText can come to: the
\* API key is missing, the call or JSON.parse throws, or the response text is
\* the JSON of an object with the department and the description the AI chose.
\* An answer about the streetlight, in the words of the AI.
StreetlightAnswers ==
    { [outcome |-> "json", department |-> "electricity board", description |-> DescLightB] }
AiAnswers ==
    { [outcome |-> "json", department |-> "Sanitation Dept", description |-> DescPotholeDup] }
      \cup StreetlightAnswers
AiResponses ==
    { [outcome |-> "noApiKey", department |-> "", description |-> ""],
      [outcome |-> "throws", department |-> "", description |-> ""] }
      \cup AiAnswers
\* The department strings the AI can answer with.
AiDepartments ==
    { "", "Electricity Board", "electricity board", "Sanitation Dept", "Water",
      "City Transport Department Office", "Department", "LAW AND ORDER",
      "Parks and Recreation", "Law and Order" }
\* The text the speech recognition has accumulated when it reports a result.
SpokenTranscripts == {"the streetlights on Oak street are broken"}
\* !finalTranscript.trim()
TranscriptIsEmpty(tr) == tr = ""
TranscriptIsBlank(tr) == \A i \in 1..Len(CharsOf(tr)) : CharsOf(tr)[i] \in Whitespace
\* The strings on which stringSimilarity is evaluated on its own: every string
\* of at most MaxLen characters of the alphabet.
Strings == UNION {[1..n -> {"a", "b", "A", " "}] : n \in 0..MaxLen}
\* event.error of recognition.onerror.
RecognitionErrors == {"not-allowed", "no-speech", "network"}
\* What a position request comes to: << >> when the error callback is called,
\* else << latitude, longitude >> of the position the success callback receives.
PositionDenied == << >>
PositionAnswers == {PositionDenied, << 17, 78 >>}
\* The keys of the two items App keeps in localStorage.
StorageKeys == {"grievance_users", "grievance_data"}
\* The keys on which localStorage.setItem throws (quota exceeded, storage
\* disabled): none, or both.
StorageFailures == {{}, StorageKeys}
\* The files of one selection or drop: a photo, and a second photo that has
\* the same file name and comes from another folder.
PhotoFile == [name |-> "photo.jpg", content |-> "data:image/jpeg;base64,AAAA"]
RetakenPhotoFile == [name |-> "photo.jpg", content |-> "data:image/jpeg;base64,BBBB"]

(* ---------------------------------------------------------------------- *)
(* State                                                                    *)
(* ---------------------------------------------------------------------- *)
VARIABLES
    users,                \* App: useState<User[]>
    grievances,           \* App: useState<Grievance[]>
    currentUser,          \* App: << >> (null) or << user >>; the portal is shown iff set
    selectedGrievance,    \* AdminPortal: << >> (null) or << the grievance object selected >>
    rejectionModalId,     \* AdminPortal: << >> (null) or << id >>
    isVoiceAssistantOpen, \* CitizenPortal
    step,                 \* VoiceAssistantModal
    parsedData,           \* VoiceAssistantModal
    transcript,           \* VoiceAssistantModal
    error,                \* VoiceAssistantModal
    capturing,            \* VoiceAssistantModal: recognition started and not yet ended or stopped
    locating,             \* VoiceAssistantModal: position requests not yet answered
    documents,            \* VoiceAssistantModal: useState<File[]>
    location,             \* VoiceAssistantModal: << >> (null) or << latitude, longitude >>
    trail,                \* the steps the open voice modal has entered, in order of first entry
    pending,              \* asynchronous handlers suspended at an await
    submitResult,         \* what handleGrievanceSubmit returned, if this step called it
    revision,             \* number of setGrievances calls so far
    grievance_users,      \* localStorage: << >> (no item) or << the users list saved >>
    grievance_data,       \* localStorage: << >> (no item) or << the grievances list saved >>
    throwing,             \* the keys on which localStorage.setItem throws
    probe                 \* a pure function under evaluation: its arguments and its result

vars == << users, grievances, currentUser, selectedGrievance, rejectionModalId,
           isVoiceAssistantOpen, step, parsedData, transcript, error, capturing, locating,
           documents, location, trail,
           pending, submitResult, revision, grievance_users, grievance_data, throwing,
           probe >>

appVars == << users, grievances, currentUser, grievance_users, grievance_data >>
adminVars == << selectedGrievance, rejectionModalId >>
voiceVars == << isVoiceAssistantOpen, step, parsedData, transcript, error, capturing,
               locating, documents, location, trail >>

NoParsedData == [organization |-> "", description |-> ""]

\* localStorage.getItem(key) as the initialisers of App use it: << >> when the
\* item is absent, empty or does not parse, else << the list JSON.parse gives >>.
NoItem == << >>

\* The record handleAuth stored for Bob Lee, as the effects saved it.
SAVED_USER_BOB ==
    [name |-> "Bob Lee", email |-> "bob@example.com", role |-> CITIZEN,
     phone |-> "5550001", password |-> Undefined, department |-> Undefined,
     misuseStrikes |-> 0]

\* What localStorage holds when App mounts: nothing on a first visit, the
\* lists an earlier mount saved after Bob Lee registered, or two empty lists.
FirstVisitStore == [grievance_users |-> NoItem, grievance_data |-> NoItem]
RegisteredStore ==
    [grievance_users |-> << << MOCK_USER_CITIZEN, MOCK_USER_ADMIN, SAVED_USER_BOB >> >>,
     grievance_data |-> << INITIAL_GRIEVANCES >>]
EmptyListsStore == [grievance_users |-> << << >> >>, grievance_data |-> << << >> >>]
Stores == {FirstVisitStore, RegisteredStore, EmptyListsStore}
\* The stores from which the citizen portal is explored.
PortalStores == {FirstVisitStore, EmptyListsStore}

\* useState<User[]>(() => ...): the saved list, else the two mock users.
InitialUsers(store) ==
    IF store.grievance_users # NoItem
    THEN store.grievance_users[1]
    ELSE << MOCK_USER_CITIZEN, MOCK_USER_ADMIN >>

\* useState<Grievance[]>(() => ...): the saved list, else INITIAL_GRIEVANCES.
InitialGrievances(store) ==
    IF store.grievance_data # NoItem
    THEN store.grievance_data[1]
    ELSE INITIAL_GRIEVANCES

\* The two items localStorage holds.
LocalStorage == [grievance_users |-> grievance_users, grievance_data |-> grievance_data]

\* try { localStorage.setItem(key, JSON.stringify(value)) } catch: the item
\* after a saving effect has run; a setItem that throws leaves the item.
SetItem(key, item, value) == IF key \in throwing THEN item ELSE << value >>

\* The saving effects run after a render that a setUsers, a setGrievances
\* or the mount of App has caused.
UsersSaved == grievance_users' = SetItem("grievance_users", grievance_users, users')
GrievancesSaved == grievance_data' = SetItem("grievance_data", grievance_data, grievances')

\* App mounts on one of the stores, the saving effects of the first render
\* included, with setItem throwing on one of the sets of keys.
Mounted(stores, failures) ==
    \E store \in stores :
        /\ throwing \in failures
        /\ users = InitialUsers(store)
        /\ grievances = InitialGrievances(store)
        /\ grievance_users = SetItem("grievance_users", store.grievance_users, users)
        /\ grievance_data = SetItem("grievance_data", store.grievance_data, grievances)

\* The state after the mount with nothing else done.
InitOn(stores, failures) ==
    /\ Mounted(stores, failures)
    /\ currentUser = << >>
    /\ selectedGrievance = << >>
    /\ rejectionModalId = << >>
    /\ isVoiceAssistantOpen = FALSE
    /\ step = "idle"
    /\ parsedData = NoParsedData
    /\ transcript = ""
    /\ error = ""
    /\ capturing = FALSE
    /\ locating = 0
    /\ documents = << >>
    /\ location = << >>
    /\ trail = << >>
    /\ probe = [fn |-> "none", args |-> << >>, done |-> FALSE, result |-> << >>]
    /\ pending = << >>
    /\ submitResult = "none"
    /\ revision = 0

Init == InitOn(Stores, StorageFailures)
\* The mounts from which the portals are explored.
InitPortal == InitOn(PortalStores, StorageFailures)
\* The mounts from which the voice pipeline is explored: the storage works.
InitVoice == InitOn(PortalStores, {{}})

\* The step called neither handleGrievanceSubmit nor setGrievances, it
\* evaluated no function on its own, and setItem throws on the keys it threw
\* on before.
NoSubmitCall == submitResult' = "none" /\ UNCHANGED << probe, throwing >>
Idle == NoSubmitCall /\ UNCHANGED revision

\* setGrievances is called once more; the saving effect runs after the render.
SetGrievances(gs) ==
    /\ revision < MaxRevisions
    /\ revision' = revision + 1
    /\ grievances' = gs
    /\ GrievancesSaved

\* A handler that writes the collection, now or when it resumes, may start.
MayStartWrite == revision + Len(pending) < MaxRevisions

\* The suspended handlers of one kind.
Suspended(kind) == {k \in 1..Len(pending) : pending[k].kind = kind}

LoggedIn(role) == currentUser # << >> /\ currentUser[1].role = role

\* Remove the k-th suspended handler.
Without(s, k) == [i \in 1..(Len(s) - 1) |-> IF i < k THEN s[i] ELSE s[i + 1]]

\* Components that unmount drop the state updates of their suspended handlers.
Unmount(s, kinds, flag) ==
    [i \in 1..Len(s) |->
        IF s[i].kind \in kinds /\ flag \in DOMAIN s[i]
        THEN [s[i] EXCEPT ![flag] = FALSE] ELSE s[i]]

(* ---------------------------------------------------------------------- *)
(* App handlers as functions of the values their closure reads             *)
(* ---------------------------------------------------------------------- *)
\* handleAuth('register', ...): the users array passed to setUsers.
RegisterUsersCaseSensitive(us, form) ==
    IF \E i \in 1..Len(us) : us[i].email = form.email
    THEN us
    ELSE Append(us, [name |-> form.name, email |-> form.email, role |-> form.role,
                     phone |-> form.phone, password |-> form.password,
                     department |-> form.department, misuseStrikes |-> 0])
RegisterUsers(us, form) ==
    IF \E i \in 1..Len(us) : ToLowerCase(us[i].email) = ToLowerCase(form.email)
    THEN us
    ELSE Append(us, [name |-> form.name, email |-> form.email, role |-> form.role,
                     phone |-> form.phone, password |-> form.password,
                     department |-> form.department, misuseStrikes |-> 0])

\* handleAuth('login', ...): << >> when the login fails, else << user >>.
LoginUser(us, form) ==
    LET found == Find(us, LAMBDA u : ToLowerCase(u.email) = ToLowerCase(form.email)
                                     /\ u.role = form.role)
    IN  IF found = << >> THEN << >>
        ELSE IF form.role = CITIZEN
             THEN (IF found[1].phone = form.phone THEN found ELSE << >>)
             ELSE (IF found[1].password = form.password THEN found ELSE << >>)

\* handleUserUpdate: users.map(u => u.email === updatedUser.email ? updatedUser : u)
UpdateUsers(us, updatedUser) ==
    [i \in 1..Len(us) |-> IF us[i].email = updatedUser.email THEN updatedUser ELSE us[i]]

\* handleGrievanceSubmit: the duplicate check over the filer's grievances.
IsDuplicateExactText(gs, draft) ==
    \E i \in 1..Len(gs) :
        /\ gs[i].complainantEmail = draft.complainantEmail
        /\ gs[i].description = draft.description
IsDuplicate(gs, draft) ==
    \E i \in 1..Len(gs) :
        /\ gs[i].complainantEmail = draft.complainantEmail
        /\ ExceedsThreshold(stringSimilarity(gs[i].description, draft.description))

\* handleGrievanceSubmit: the record built from the draft.
NewGrievance(gs, draft) ==
    [id |-> GrievanceId(Len(gs) + 1),
     complainantName |-> draft.complainantName,
     complainantEmail |-> draft.complainantEmail,
     dateFiled |-> Today,
     organization |-> draft.organization,
     description |-> draft.description,
     status |-> FILED,
     documents |-> draft.documents,
     aiSolution |-> Undefined,
     history |-> << HistoryEntry(FILED, Today, "Grievance submitted by citizen.", Undefined) >>,
     location |-> draft.location]

\* handleGrievanceSubmit: [newGrievance, ...grievances]
PrependGrievance(gs, draft) == << NewGrievance(gs, draft) >> \o gs

\* handleStatusChange: the grievance found by id, << >> when there is none.
GrievanceToUpdate(gs, id) == Find(gs, LAMBDA g : g.id = id)

\* handleStatusChange: does this call record a misuse strike?
CarriesStrike(newStatus, reason) == newStatus = REJECTED /\ reason = rejectionReasonFalse

\* handleStatusChange: the users array after the call.
StatusChangeUsersStrikesAll(us, gs, id, newStatus, reason) ==
    IF ~CarriesStrike(newStatus, reason) THEN us
    ELSE [i \in 1..Len(us) |-> [us[i] EXCEPT !.misuseStrikes = Strikes(us[i]) + 1]]
StatusChangeUsers(us, gs, id, newStatus, reason) ==
    LET found == GrievanceToUpdate(gs, id)
    IN  IF found = << >> \/ ~CarriesStrike(newStatus, reason) THEN us
        ELSE [i \in 1..Len(us) |->
                IF us[i].email = found[1].complainantEmail
                THEN [us[i] EXCEPT !.misuseStrikes = Strikes(us[i]) + 1]
                ELSE us[i]]

\* handleStatusChange: setCurrentUser(updatedUser) for the logged-in user.
StatusChangeCurrentUser(cu, us, gs, id, newStatus, reason) ==
    LET found == GrievanceToUpdate(gs, id)
        after == StatusChangeUsers(us, gs, id, newStatus, reason)
        hits  == IF found = << >> \/ ~CarriesStrike(newStatus, reason) \/ cu = << >> THEN {}
                 ELSE {i \in 1..Len(us) : us[i].email = found[1].complainantEmail
                                          /\ cu[1].email = us[i].email}
    IN  IF hits = {} THEN cu
        ELSE << after[CHOOSE i \in hits : \A j \in hits : j <= i] >>

\* notes || `Status updated to ${newStatus} by admin.`
HistoryNotes(newStatus, notes) ==
    IF notes = Undefined \/ notes = ""
    THEN "Status updated to " \o newStatus \o " by admin."
    ELSE notes

\* handleStatusChange: the grievances array after the call.
StatusChangeKeepsStatus(gs, id, newStatus, reason, notes) ==
    [i \in 1..Len(gs) |->
        IF gs[i].id # id THEN gs[i]
        ELSE [gs[i] EXCEPT
                !.history = Append(@, HistoryEntry(newStatus, Today,
                                                   HistoryNotes(newStatus, notes), reason))]]
StatusChangeTouchesAll(gs, id, newStatus, reason, notes) ==
    [i \in 1..Len(gs) |->
        [gs[i] EXCEPT
            !.status = newStatus,
            !.history = Append(@, HistoryEntry(newStatus, Today,
                                               HistoryNotes(newStatus, notes), reason))]]
StatusChangeGrievances(gs, id, newStatus, reason, notes) ==
    [i \in 1..Len(gs) |->
        IF gs[i].id # id THEN gs[i]
        ELSE [gs[i] EXCEPT
                !.status = newStatus,
                !.history = Append(@, HistoryEntry(newStatus, Today,
                                                   HistoryNotes(newStatus, notes), reason))]]

\* handleAddSolution: grievances.map(g => g.id === id ? { ...g, aiSolution } : g)
AddSolutionApproves(gs, id, solution) ==
    [i \in 1..Len(gs) |->
        IF gs[i].id = id THEN [gs[i] EXCEPT !.aiSolution = solution, !.status = APPROVED]
        ELSE gs[i]]
AddSolution(gs, id, solution) ==
    [i \in 1..Len(gs) |-> IF gs[i].id = id THEN [gs[i] EXCEPT !.aiSolution = solution] ELSE gs[i]]

(* ---------------------------------------------------------------------- *)
(* parseGrievanceFromText                                                   *)
(* ---------------------------------------------------------------------- *)
\* String.prototype.toLowerCase on the characters of a string.
LowerChars(cs) == [i \in 1..Len(cs) |-> LowerChar(cs[i])]

\* String.prototype.includes: t occurs in s as a contiguous run of characters.
StringIncludes(s, t) ==
    \E i \in 0..(Len(s) - Len(t)) : SubSeq(s, i + 1, i + Len(t)) = t

\* The department of the AI response as parseGrievanceFromText returns it:
\* kept when empty or a name of the list, else the first name of the list that
\* contains it or is contained in it without regard to case, else ''.
ReconcileDepartmentOneWay(department, departments) ==
    IF department # "" /\ \A i \in 1..Len(departments) : departments[i] # department
    THEN LET lowerCaseParsed == LowerChars(CharsOf(department))
             match == Find(departments,
                           LAMBDA d : StringIncludes(LowerChars(CharsOf(d)), lowerCaseParsed))
         IN  IF match # << >> THEN match[1] ELSE ""
    ELSE department
ReconcileDepartment(department, departments) ==
    IF department # "" /\ \A i \in 1..Len(departments) : departments[i] # department
    THEN LET lowerCaseParsed == LowerChars(CharsOf(department))
             match == Find(departments,
                           LAMBDA d : \/ StringIncludes(LowerChars(CharsOf(d)), lowerCaseParsed)
                                      \/ StringIncludes(lowerCaseParsed, LowerChars(CharsOf(d))))
         IN  IF match # << >> THEN match[1] ELSE ""
    ELSE department

\* parseGrievanceFromText(text, departments) on the outcome of its AI call.
parseGrievanceFromText(response, departments) ==
    IF response.outcome = "noApiKey"
    THEN [department |-> "", description |-> "",
          error |-> "AI services are currently unavailable."]
    ELSE IF response.outcome = "throws"
    THEN [department |-> "", description |-> "",
          error |-> "Could not understand the grievance. Please try again."]
    ELSE [department |-> ReconcileDepartment(response.department, departments),
          description |-> response.description,
          error |-> Undefined]

(* ---------------------------------------------------------------------- *)
(* Account actions                                                          *)
(* ---------------------------------------------------------------------- *)
\* LoginPage.handleSubmit in register mode -> handleAuth('register', form);
\* setUsers is called when no user has the e-mail.
Register(form) ==
    /\ currentUser = << >>
    /\ users' = RegisterUsers(users, form)
    /\ IF users' = users THEN UNCHANGED grievance_users ELSE UsersSaved
    /\ UNCHANGED << grievances, grievance_data, currentUser, adminVars, voiceVars, pending >>
    /\ Idle

\* LoginPage.handleSubmit in login mode -> handleAuth('login', form).
Login(form) ==
    /\ currentUser = << >>
    /\ currentUser' = LoginUser(users, form)
    /\ UNCHANGED << users, grievance_users, grievances, grievance_data, adminVars, voiceVars, pending >>
    /\ Idle

\* The state a voice modal has when it mounts.
ModalMounted ==
    /\ step' = "idle"
    /\ parsedData' = NoParsedData
    /\ transcript' = ""
    /\ error' = ""
    /\ capturing' = FALSE
    /\ locating' = 0
    /\ documents' = << >>
    /\ location' = << >>
    /\ trail' = << >>

\* The state of the voice modal once it is unmounted; the cleanup of its
\* effect calls recognition.stop().
VoiceUnmounted ==
    /\ isVoiceAssistantOpen' = FALSE
    /\ ModalMounted

\* handleLogout; the portal unmounts, and with it the detail view, the
\* rejection modal and the voice modal, whichever is open.
Logout ==
    /\ currentUser # << >>
    /\ currentUser' = << >>
    /\ selectedGrievance' = << >>
    /\ rejectionModalId' = << >>
    /\ VoiceUnmounted
    /\ pending' = Unmount(Unmount(pending, {"ai", "voice"}, "mounted"), {"voice"}, "portalMounted")
    /\ UNCHANGED << users, grievance_users, grievances, grievance_data >>
    /\ Idle

\* The phone field of the profile form: what handleEditToggle filled in,
\* user.phone || '', or a number typed over it.
ProfilePhones ==
    {"0000000"} \cup {IF currentUser[i].phone = Undefined THEN "" ELSE currentUser[i].phone :
                          i \in 1..Len(currentUser)}

\* UserProfile.handleSave -> handleUserUpdate({ ...user, ...formData }).
UserProfileSave(name, email, phone) ==
    /\ LoggedIn(CITIZEN)
    /\ LET user == currentUser[1]
           updatedUser == [user EXCEPT !.name = name, !.email = email, !.phone = phone]
       IN  /\ users' = UpdateUsers(users, updatedUser)
           /\ UsersSaved
           /\ currentUser' = << updatedUser >>
    /\ UNCHANGED << grievances, grievance_data, adminVars, voiceVars, pending >>
    /\ Idle

\* AdminProfile.handleInfoSave -> handleUserUpdate({ ...user, ...formData }).
AdminInfoSave(name, email) ==
    /\ LoggedIn(ADMIN)
    /\ selectedGrievance = << >>
    /\ LET updatedUser == [currentUser[1] EXCEPT !.name = name, !.email = email]
       IN  /\ users' = UpdateUsers(users, updatedUser)
           /\ UsersSaved
           /\ currentUser' = << updatedUser >>
    /\ UNCHANGED << grievances, grievance_data, adminVars, voiceVars, pending >>
    /\ Idle

\* AdminProfile.handlePasswordSave -> handleUserUpdate(user, { current, new }).
AdminPasswordSave(form) ==
    /\ LoggedIn(ADMIN)
    /\ selectedGrievance = << >>
    /\ LET user == currentUser[1]
           userInDb == Find(users, LAMBDA u : u.email = user.email)
           updatedUser == [user EXCEPT !.password = form.new]
       IN  IF \/ form.new # form.confirm
              \/ form.current = "" \/ form.new = ""
              \/ userInDb = << >>
              \/ userInDb[1].password # form.current
           THEN UNCHANGED << users, grievance_users, currentUser >>
           ELSE /\ users' = UpdateUsers(users, updatedUser)
                /\ UsersSaved
                /\ currentUser' = << updatedUser >>
    /\ UNCHANGED << grievances, grievance_data, adminVars, voiceVars, pending >>
    /\ Idle

(* ---------------------------------------------------------------------- *)
(* Admin portal actions                                                     *)
(* ---------------------------------------------------------------------- *)
\* The View button of a row of the department's table: setSelectedGrievance(g).
AdminSelect(i) ==
    /\ LoggedIn(ADMIN)
    /\ selectedGrievance = << >>
    /\ i \in 1..Len(grievances)
    /\ grievances[i].organization = currentUser[1].department
    /\ selectedGrievance' = << grievances[i] >>
    /\ UNCHANGED << appVars, rejectionModalId, voiceVars, pending >>
    /\ Idle

\* GrievanceDetail onClose; the detail view unmounts.
DetailClose ==
    /\ selectedGrievance # << >>
    /\ selectedGrievance' = << >>
    /\ pending' = Unmount(pending, {"ai"}, "mounted")
    /\ UNCHANGED << appVars, rejectionModalId, voiceVars >>
    /\ Idle

\* handleStatusChange(id, newStatus, reason, notes) on the state of this render.
HandleStatusChange(id, newStatus, reason, notes) ==
    /\ users' = StatusChangeUsers(users, grievances, id, newStatus, reason)
    /\ IF GrievanceToUpdate(grievances, id) # << >> /\ CarriesStrike(newStatus, reason)
       THEN UsersSaved
       ELSE UNCHANGED grievance_users
    /\ currentUser' = StatusChangeCurrentUser(currentUser, users, grievances, id, newStatus, reason)
    /\ IF GrievanceToUpdate(grievances, id) = << >>
       THEN UNCHANGED << grievances, grievance_data, revision >>
       ELSE /\ MayStartWrite
            /\ SetGrievances(StatusChangeGrievances(grievances, id, newStatus, reason, notes))
    /\ NoSubmitCall

\* The Under Review and Approve buttons of the detail view.
DetailStatusChange(newStatus) ==
    /\ selectedGrievance # << >>
    /\ HandleStatusChange(selectedGrievance[1].id, newStatus, Undefined, Undefined)
    /\ UNCHANGED << adminVars, voiceVars, pending >>

\* The Reject button of the detail view: setRejectionModalId(grievance.id).
DetailReject ==
    /\ selectedGrievance # << >>
    /\ rejectionModalId' = << selectedGrievance[1].id >>
    /\ UNCHANGED << appVars, selectedGrievance, voiceVars, pending >>
    /\ Idle

\* RejectionModal.handleSubmit -> handleRejectSubmit -> handleStatusChange; onClose.
RejectionSubmit(reason, notes) ==
    /\ rejectionModalId # << >>
    /\ HandleStatusChange(rejectionModalId[1], REJECTED, reason, notes)
    /\ rejectionModalId' = << >>
    /\ UNCHANGED << selectedGrievance, voiceVars, pending >>

\* The Cancel button of the rejection modal.
RejectionCancel ==
    /\ rejectionModalId # << >>
    /\ rejectionModalId' = << >>
    /\ UNCHANGED << appVars, selectedGrievance, voiceVars, pending >>
    /\ Idle

\* Is the generate-solution button of the mounted detail view disabled?
IsSolutionLoading == \E k \in 1..Len(pending) : pending[k].kind = "ai" /\ pending[k].mounted

\* GrievanceDetail.getAiSolution up to its await; handleAddSolution is the
\* one of the render in which the button was clicked.
GetAiSolution ==
    /\ selectedGrievance # << >>
    /\ selectedGrievance[1].aiSolution \in {Undefined, ""}
    /\ ~IsSolutionLoading
    /\ MayStartWrite
    /\ pending' = Append(pending, [kind |-> "ai", id |-> selectedGrievance[1].id,
                                   snap |-> grievances, mounted |-> TRUE])
    /\ UNCHANGED << appVars, adminVars, voiceVars >>
    /\ Idle

\* generateSolutionForGrievance resolves: onAddSolution(grievance.id, solution).
AiSolutionDone(k, solution) ==
    /\ k \in 1..Len(pending)
    /\ pending[k].kind = "ai"
    /\ SetGrievances(AddSolution(pending[k].snap, pending[k].id, solution))
    /\ pending' = Without(pending, k)
    /\ NoSubmitCall
    /\ UNCHANGED << users, grievance_users, currentUser, adminVars, voiceVars >>

(* ---------------------------------------------------------------------- *)
(* Grievance submission: the form and the voice pipeline                    *)
(* ---------------------------------------------------------------------- *)
\* The draft a submit handler builds; user is the prop of the render it runs in.
Draft(user, organization, description, docContents, position) ==
    [complainantName |-> user.name, complainantEmail |-> user.email,
     organization |-> organization, description |-> description,
     documents |-> docContents, location |-> position]

\* handleGrievanceSubmit, called by a handler whose closure holds the
\* collection snap: the effect on the App state and the value returned.
HandleGrievanceSubmit(snap, draft) ==
    IF IsDuplicate(snap, draft)
    THEN /\ submitResult' = "false"
         /\ UNCHANGED << grievances, grievance_data, revision >>
         /\ UNCHANGED << probe, throwing >>
    ELSE /\ submitResult' = "true"
         /\ SetGrievances(PrependGrievance(snap, draft))
         /\ UNCHANGED << probe, throwing >>

\* SubmitGrievance.handleSubmit up to `await checkSpam(description)`.
FormSubmit(organization, description, formDocuments, formLocation) ==
    /\ LoggedIn(CITIZEN)
    /\ MayStartWrite
    /\ Normalize(CharsOf(description)) # << >>
    /\ pending' = Append(pending,
                         [kind |-> "form", stage |-> "spam", snap |-> grievances,
                          draft |-> Draft(currentUser[1], organization, description,
                                          formDocuments, formLocation)])
    /\ UNCHANGED << appVars, adminVars, voiceVars >>
    /\ Idle

\* checkSpam resolves.  Without attachments Promise.all resolves in the same
\* task and handleGrievanceSubmit is called at once.
FormSpamChecked(k, isSpam) ==
    /\ k \in 1..Len(pending)
    /\ pending[k].kind = "form"
    /\ pending[k].stage = "spam"
    /\ IF isSpam
       THEN /\ pending' = Without(pending, k)
            /\ UNCHANGED << grievances, grievance_data >>
            /\ Idle
       ELSE IF pending[k].draft.documents # << >>
       THEN /\ pending' = [pending EXCEPT ![k].stage = "reads"]
            /\ UNCHANGED << grievances, grievance_data >>
            /\ Idle
       ELSE /\ HandleGrievanceSubmit(pending[k].snap, pending[k].draft)
            /\ pending' = Without(pending, k)
    /\ UNCHANGED << users, grievance_users, currentUser, adminVars, voiceVars >>

\* The attachment reads of the form resolve: `await onGrievanceSubmit(...)`.
FormReadsDone(k) ==
    /\ k \in 1..Len(pending)
    /\ pending[k].kind = "form"
    /\ pending[k].stage = "reads"
    /\ HandleGrievanceSubmit(pending[k].snap, pending[k].draft)
    /\ pending' = Without(pending, k)
    /\ UNCHANGED << users, grievance_users, currentUser, adminVars, voiceVars >>

\* An attachment read fails: Promise.all rejects and the handler ends there.
ReadsFailed(k) ==
    /\ k \in 1..Len(pending)
    /\ \/ pending[k].kind = "form" /\ pending[k].stage = "reads"
       \/ pending[k].kind = "voice"
    /\ pending' = Without(pending, k)
    /\ UNCHANGED << appVars, adminVars, voiceVars >>
    /\ Idle

\* The trail once step s has been entered.
Entered(s) ==
    IF s = "idle" \/ \E i \in 1..Len(trail) : trail[i] = s THEN trail ELSE Append(trail, s)

\* setStep(s)
SetStep(s) ==
    /\ step' = s
    /\ trail' = Entered(s)

\* The microphone button of the citizen portal: setIsVoiceAssistantOpen(true).
VoiceOpen ==
    /\ LoggedIn(CITIZEN)
    /\ ~isVoiceAssistantOpen
    /\ isVoiceAssistantOpen' = TRUE
    /\ ModalMounted
    /\ UNCHANGED << appVars, adminVars, pending >>
    /\ Idle

\* The close button of the voice modal: onClose; the modal unmounts.
VoiceClose ==
    /\ isVoiceAssistantOpen
    /\ VoiceUnmounted
    /\ pending' = Unmount(pending, {"voice"}, "mounted")
    /\ UNCHANGED << appVars, adminVars >>
    /\ Idle

\* VoiceAssistantModal.handleStart; started is FALSE when recognition.start()
\* throws, and the catch sets the step back to idle in the same task.
VoiceStart(started) ==
    /\ isVoiceAssistantOpen
    /\ step = "idle"
    /\ transcript' = ""
    /\ error' = ""
    /\ IF started
       THEN /\ SetStep("listening")
            /\ capturing' = TRUE
       ELSE /\ SetStep("idle")
            /\ UNCHANGED capturing
    /\ UNCHANGED << appVars, adminVars, isVoiceAssistantOpen, parsedData, locating, documents, location, pending >>
    /\ Idle

\* recognition.onerror: the text setError receives; t(key) stands for the
\* text of the key in the language in use.
RecognitionErrorText(code) ==
    IF code = "not-allowed" THEN "voicePermissionDenied"
    ELSE IF code = "no-speech" THEN "voiceNoInput"
    ELSE "voiceError" \o " (" \o code \o ")"

\* recognition.onerror
VoiceRecognitionError(code) ==
    /\ isVoiceAssistantOpen
    /\ capturing
    /\ error' = RecognitionErrorText(code)
    /\ UNCHANGED << appVars, adminVars, isVoiceAssistantOpen, step, parsedData, transcript,
                    capturing, locating, documents, location, trail, pending >>
    /\ Idle

\* recognition.onresult: setTranscript(fullTranscript).
VoiceResult(text) ==
    /\ isVoiceAssistantOpen
    /\ capturing
    /\ transcript # text
    /\ transcript' = text
    /\ UNCHANGED << appVars, adminVars, isVoiceAssistantOpen, step, parsedData, error,
                    capturing, locating, documents, location, trail, pending >>
    /\ Idle

\* recognition.onend while listening (after handleStop or end of speech):
\* processTranscript up to its await, or back to idle on a blank transcript.
VoiceRecognitionEnd ==
    /\ isVoiceAssistantOpen
    /\ capturing
    /\ capturing' = FALSE
    /\ IF step = "listening"
       THEN SetStep(IF TranscriptIsBlank(transcript) THEN "idle" ELSE "processing")
       ELSE UNCHANGED << step, trail >>
    /\ UNCHANGED << appVars, adminVars, isVoiceAssistantOpen, parsedData, transcript, error,
                    locating, documents, location, pending >>
    /\ Idle

\* The step processTranscript sets once parseGrievanceFromText has resolved.
StepAfterParseSkipsConfirming(result) ==
    IF result.error # Undefined THEN "idle" ELSE "uploading"
StepAfterParseAlwaysConfirms(result) == "confirming"
StepAfterParse(result) ==
    IF result.error # Undefined THEN "idle" ELSE "confirming"

\* parseGrievanceFromText resolves in processTranscript.
VoiceParsed(response) ==
    /\ isVoiceAssistantOpen
    /\ step = "processing"
    /\ LET result == parseGrievanceFromText(response, DEPARTMENTS)
       IN  /\ SetStep(StepAfterParse(result))
           /\ IF result.error # Undefined
              THEN /\ error' = result.error
                   /\ UNCHANGED parsedData
              ELSE /\ parsedData' = [organization |-> IF result.department = ""
                                                      THEN DEPARTMENTS[1]
                                                      ELSE result.department,
                                     description |-> result.description]
                   /\ UNCHANGED error
    /\ UNCHANGED << appVars, adminVars, isVoiceAssistantOpen, transcript, capturing, locating, documents, location, pending >>
    /\ Idle

\* The department select of the confirming step:
\* setParsedData(d => ({...d, organization})).
VoiceEditOrganization(organization) ==
    /\ isVoiceAssistantOpen
    /\ step = "confirming"
    /\ parsedData.organization # organization
    /\ parsedData' = [parsedData EXCEPT !.organization = organization]
    /\ UNCHANGED << appVars, adminVars, isVoiceAssistantOpen, step, transcript, error,
                    capturing, locating, documents, location, trail, pending >>
    /\ Idle

\* The description textarea of the confirming step:
\* setParsedData(d => ({...d, description})).
VoiceEditDescription(description) ==
    /\ isVoiceAssistantOpen
    /\ step = "confirming"
    /\ parsedData.description # description
    /\ parsedData' = [parsedData EXCEPT !.description = description]
    /\ UNCHANGED << appVars, adminVars, isVoiceAssistantOpen, step, transcript, error,
                    capturing, locating, documents, location, trail, pending >>
    /\ Idle

\* VoiceAssistantModal.handleRetry
VoiceRetryListens ==
    /\ isVoiceAssistantOpen
    /\ step = "confirming"
    /\ transcript' = ""
    /\ error' = ""
    /\ SetStep("listening")
    /\ capturing' = TRUE
    /\ UNCHANGED << appVars, adminVars, isVoiceAssistantOpen, parsedData, locating, documents, location, pending >>
    /\ Idle
VoiceRetry ==
    /\ isVoiceAssistantOpen
    /\ step = "confirming"
    /\ transcript' = ""
    /\ error' = ""
    /\ SetStep("idle")
    /\ UNCHANGED << appVars, adminVars, isVoiceAssistantOpen, parsedData, capturing, locating, documents, location, pending >>
    /\ Idle

\* VoiceAssistantModal.handleConfirm: handleGetLocation starts a position
\* request if navigator.geolocation is defined, then setStep('uploading').
VoiceConfirm(geolocation) ==
    /\ isVoiceAssistantOpen
    /\ step = "confirming"
    /\ IF geolocation
       THEN /\ locating < MaxPositionRequests
            /\ locating' = locating + 1
       ELSE UNCHANGED locating
    /\ SetStep("uploading")
    /\ UNCHANGED << appVars, adminVars, isVoiceAssistantOpen, parsedData, transcript, error,
                    capturing, documents, location, pending >>
    /\ Idle

\* A position request of handleGetLocation is answered: the success callback
\* sets the location, which the submit reads; the error callback sets error.
VoicePositionAnswered(answer) ==
    /\ isVoiceAssistantOpen
    /\ locating > 0
    /\ locating' = locating - 1
    /\ IF answer = PositionDenied
       THEN /\ error' = "locationError"
            /\ UNCHANGED location
       ELSE /\ location' = answer
            /\ UNCHANGED error
    /\ UNCHANGED << appVars, adminVars, isVoiceAssistantOpen, step, parsedData, transcript,
                    capturing, documents, trail, pending >>
    /\ Idle

\* The Back button of the uploading step.
VoiceBack ==
    /\ isVoiceAssistantOpen
    /\ step = "uploading"
    /\ SetStep("confirming")
    /\ UNCHANGED << appVars, adminVars, isVoiceAssistantOpen, parsedData, transcript, error,
                    capturing, locating, documents, location, pending >>
    /\ Idle

\* t('errorDuplicate'): the key stands for the text of the language in use.
ErrorDuplicate == "errorDuplicate"

\* The step handleSubmit sets when onSubmit returned false.
StepOnDuplicateIdle == "idle"
StepOnDuplicate == "confirming"

\* The draft handleSubmit of the open voice modal passes to onSubmit:
\* { ...parsedData, documents: docContents, location: location || undefined }.
VoiceDraft ==
    Draft(currentUser[1], parsedData.organization, parsedData.description,
          documents, location)

\* VoiceAssistantModal.handleSubmit up to the attachment reads.  Without
\* attachments Promise.all resolves in the same task and onSubmit is called at once.
VoiceSubmit ==
    /\ isVoiceAssistantOpen
    /\ step = "uploading"
    /\ MayStartWrite
    /\ LET draft == VoiceDraft
       IN  IF documents = << >>
           THEN /\ HandleGrievanceSubmit(grievances, draft)
                /\ IF submitResult' = "true"
                   THEN /\ VoiceUnmounted
                        /\ pending' = Unmount(pending, {"voice"}, "mounted")
                   ELSE /\ step' = StepOnDuplicate
                        /\ trail' = Entered("submitting")
                        /\ error' = ErrorDuplicate
                        /\ UNCHANGED << isVoiceAssistantOpen, parsedData, transcript,
                                        capturing, locating, documents, location, pending >>
           ELSE /\ SetStep("submitting")
                /\ pending' = Append(pending,
                                     [kind |-> "voice", snap |-> grievances, draft |-> draft,
                                      mounted |-> TRUE, portalMounted |-> TRUE,
                                      trail |-> Entered("submitting")])
                /\ UNCHANGED << grievances, grievance_data, isVoiceAssistantOpen, parsedData, transcript,
                                error, capturing, locating, documents, location >>
                /\ Idle
    /\ UNCHANGED << users, grievance_users, currentUser, adminVars >>

\* The attachment reads of the voice modal resolve: `await onSubmit(...)`, then
\* onClose() on success, else back to the confirming step.
VoiceSubmitDone(k) ==
    /\ k \in 1..Len(pending)
    /\ pending[k].kind = "voice"
    /\ HandleGrievanceSubmit(pending[k].snap, pending[k].draft)
    /\ IF submitResult' = "true" /\ pending[k].portalMounted
       THEN /\ VoiceUnmounted
            /\ pending' = Unmount(Without(pending, k), {"voice"}, "mounted")
       ELSE IF submitResult' = "false" /\ pending[k].mounted
       THEN /\ SetStep(StepOnDuplicate)
            /\ error' = ErrorDuplicate
            /\ pending' = Without(pending, k)
            /\ UNCHANGED << isVoiceAssistantOpen, parsedData, transcript, capturing, locating, documents, location >>
       ELSE /\ pending' = Without(pending, k)
            /\ UNCHANGED voiceVars
    /\ UNCHANGED << users, grievance_users, currentUser, adminVars >>

\* The names of a list of files.
FileNames(files) == {files[i].name : i \in 1..Len(files)}

\* SubmitGrievance.handleFileChange: the documents after one selection or drop.
FormFileChange(prev, files) ==
    prev \o SelectSeq(files, LAMBDA f : f.name \notin FileNames(prev))

\* VoiceAssistantModal.handleFileChange: the documents after one selection.
VoiceFileChange(prev, files) == prev \o files

\* The documents the form holds after at most two selections or drops,
\* starting from the empty list of its mount; one drop can hold two files of
\* the same name.
FormSelections ==
    {FormFileChange(FormFileChange(<< >>, first), second) :
        first \in {<< >>, << PhotoFile >>, << PhotoFile, RetakenPhotoFile >>},
        second \in {<< >>, << RetakenPhotoFile >>}}

\* What the user selects in the upload step of the voice modal: a photo
\* first, and once more the photo retaken if the selections are two.
VoiceSelections(held) ==
    IF held = << >> THEN {<< PhotoFile >>}
    ELSE IF held = << PhotoFile >> THEN {<< RetakenPhotoFile >>}
    ELSE {}

\* The file input of the upload step: handleFileChange(e.target.files).
VoiceFilesSelected(files) ==
    /\ isVoiceAssistantOpen
    /\ step = "uploading"
    /\ files # << >>
    /\ documents' = VoiceFileChange(documents, files)
    /\ UNCHANGED << appVars, adminVars, isVoiceAssistantOpen, step, parsedData, transcript,
                    error, capturing, locating, location, trail, pending >>
    /\ Idle

\* localStorage.setItem starts or stops throwing on some keys.
StorageChange(keys) ==
    /\ throwing # keys
    /\ throwing' = keys
    /\ submitResult' = "none"
    /\ UNCHANGED << appVars, adminVars, voiceVars, pending, revision, probe >>

\* The page is reloaded: App mounts again on what localStorage holds, the
\* saving effects run, no user is logged in, and the handlers suspended in
\* the old page never resume.
Reload ==
    /\ users' = InitialUsers(LocalStorage)
    /\ grievances' = InitialGrievances(LocalStorage)
    /\ UsersSaved
    /\ GrievancesSaved
    /\ currentUser' = << >>
    /\ selectedGrievance' = << >>
    /\ rejectionModalId' = << >>
    /\ VoiceUnmounted
    /\ pending' = << >>
    /\ Idle

(* ---------------------------------------------------------------------- *)
(* Specifications                                                           *)
(* ---------------------------------------------------------------------- *)
\* Sessions: the login page, the logout button and the reload of the page.
Session ==
    \/ \E form \in LoginForms : Login(form)
    \/ Logout
    \/ Reload

\* The admin portal: the department table, the detail view, the rejection modal.
AdminPortal ==
    \/ \E i \in 1..Len(grievances) : AdminSelect(i)
    \/ DetailClose
    \/ \E newStatus \in {UNDER_REVIEW, APPROVED} : DetailStatusChange(newStatus)
    \/ DetailReject
    \/ \E form \in RejectionForms : RejectionSubmit(form.reason, form.notes)
    \/ RejectionCancel

\* The lifecycle: a citizen files through the form, an admin of the department
\* reviews, rejects or approves and requests AI solutions, in an App mounted
\* on a first visit or on saved empty lists.
Next ==
    \/ Session
    \/ AdminPortal
    \/ GetAiSolution
    \/ \E k \in 1..Len(pending), solution \in Solutions : AiSolutionDone(k, solution)
    \/ \E organization \in FormOrganizations :
          FormSubmit(organization, DescPothole, NoDocuments, NoLocation)
    \/ \E k \in 1..Len(pending), isSpam \in SpamVerdicts : FormSpamChecked(k, isSpam)

Spec == InitPortal /\ [][Next]_vars

\* The citizen portal: the form and the voice pipeline file grievances side by
\* side, in a browser without geolocation.
NextSubmit ==
    \/ Session
    \/ \E organization \in FormOrganizations, form \in FormDrafts :
          FormSubmit(organization, form.description, form.documents, NoLocation)
    \/ \E k \in 1..Len(pending), isSpam \in SpamVerdicts : FormSpamChecked(k, isSpam)
    \/ \E k \in 1..Len(pending) : FormReadsDone(k)
    \/ \E k \in 1..Len(pending) : ReadsFailed(k)
    \/ VoiceOpen
    \/ VoiceClose
    \/ \E started \in BOOLEAN : VoiceStart(started)
    \/ \E text \in SpokenTranscripts : VoiceResult(text)
    \/ VoiceRecognitionEnd
    \/ VoiceRecognitionError("no-speech")
    \/ \E response \in AiAnswers : VoiceParsed(response)
    \/ VoiceConfirm(FALSE)
    \/ VoiceBack
    \/ documents = << >> /\ VoiceFilesSelected(<< PhotoFile >>)
    \/ VoiceSubmit
    \/ \E k \in 1..Len(pending) : VoiceSubmitDone(k)

SpecSubmit == InitPortal /\ [][NextSubmit]_vars

\* The voice pipeline on its own, with every outcome of the start, of the
\* transcript and of the parse, in a browser without geolocation; the
\* recognition reports the silence error.
NextVoice ==
    \/ Session
    \/ VoiceOpen
    \/ VoiceClose
    \/ \E started \in BOOLEAN : VoiceStart(started)
    \/ \E text \in {"", " \t\n"} \cup SpokenTranscripts : VoiceResult(text)
    \/ VoiceRecognitionEnd
    \/ VoiceRecognitionError("no-speech")
    \/ \E response \in AiResponses : VoiceParsed(response)
    \/ VoiceRetry
    \/ VoiceConfirm(FALSE)
    \/ VoiceBack
    \/ documents = << >> /\ VoiceFilesSelected(<< PhotoFile >>)
    \/ VoiceSubmit
    \/ \E k \in 1..Len(pending) : VoiceSubmitDone(k)
    \/ \E k \in 1..Len(pending) : ReadsFailed(k)

SpecVoice == InitVoice /\ [][NextVoice]_vars

\* The voice pipeline with the department and the description edited in the
\* confirming step, on a spoken transcript and the answer about the streetlight,
\* in a browser without geolocation; the recognition reports the silence error.
NextDraft ==
    \/ Session
    \/ VoiceOpen
    \/ VoiceClose
    \/ \E started \in BOOLEAN : VoiceStart(started)
    \/ \E text \in SpokenTranscripts : VoiceResult(text)
    \/ VoiceRecognitionEnd
    \/ VoiceRecognitionError("no-speech")
    \/ \E response \in StreetlightAnswers : VoiceParsed(response)
    \/ VoiceEditOrganization(DEPARTMENTS[4])
    \/ VoiceEditDescription(DescLightA)
    \/ VoiceConfirm(FALSE)
    \/ VoiceBack
    \/ documents = << >> /\ VoiceFilesSelected(<< PhotoFile >>)
    \/ VoiceSubmit
    \/ \E k \in 1..Len(pending) : VoiceSubmitDone(k)

SpecDraft == InitVoice /\ [][NextDraft]_vars

\* The voice pipeline in a browser with or without geolocation: a position
\* requested is found or denied, and the recognition reports every error code.
NextLocated ==
    \/ Session
    \/ VoiceOpen
    \/ VoiceClose
    \/ \E started \in BOOLEAN : VoiceStart(started)
    \/ \E text \in SpokenTranscripts : VoiceResult(text)
    \/ VoiceRecognitionEnd
    \/ \E code \in RecognitionErrors : VoiceRecognitionError(code)
    \/ \E response \in AiAnswers : VoiceParsed(response)
    \/ \E geolocation \in BOOLEAN : VoiceConfirm(geolocation)
    \/ \E answer \in PositionAnswers : VoicePositionAnswered(answer)
    \/ VoiceBack
    \/ documents = << >> /\ VoiceFilesSelected(<< PhotoFile >>)
    \/ VoiceSubmit
    \/ \E k \in 1..Len(pending) : VoiceSubmitDone(k)

SpecLocated == InitVoice /\ [][NextLocated]_vars

\* The account store: registration, profile edits and password changes around
\* a grievance filed by an account holder and rejected by the admin.
NextAccounts ==
    \/ Session
    \/ \E form \in RegistrationForms : Register(form)
    \/ \E email \in ProfileEmails \cup {currentUser[i].email : i \in 1..Len(currentUser)} :
          \/ \E phone \in ProfilePhones : UserProfileSave(currentUser[1].name, email, phone)
          \/ AdminInfoSave(currentUser[1].name, email)
    \/ \E form \in PasswordForms : AdminPasswordSave(form)
    \/ \E organization \in FormOrganizations :
          FormSubmit(organization, DescPothole, NoDocuments, NoLocation)
    \/ \E k \in 1..Len(pending), isSpam \in SpamVerdicts : FormSpamChecked(k, isSpam)
    \/ \E i \in 1..Len(grievances) : AdminSelect(i)
    \/ DetailClose
    \/ DetailReject
    \/ \E form \in RejectionForms : RejectionSubmit(form.reason, form.notes)
    \/ RejectionCancel

SpecAccounts == InitPortal /\ [][NextAccounts]_vars

\* stringSimilarity(a, b) is evaluated.
EvalStringSimilarity ==
    /\ probe.fn = "stringSimilarity"
    /\ ~probe.done
    /\ probe' = [probe EXCEPT !.done = TRUE,
                              !.result = stringSimilarityOfChars(probe.args[1], probe.args[2])]
    /\ submitResult' = "none"
    /\ UNCHANGED << appVars, adminVars, voiceVars, pending, revision, throwing >>

\* The department reconciliation of parseGrievanceFromText is evaluated.
EvalReconcileDepartment ==
    /\ probe.fn = "reconcileDepartment"
    /\ ~probe.done
    /\ probe' = [probe EXCEPT !.done = TRUE,
                              !.result = parseGrievanceFromText(
                                             [outcome |-> "json", department |-> probe.args[1],
                                              description |-> ""], DEPARTMENTS).department]
    /\ submitResult' = "none"
    /\ UNCHANGED << appVars, adminVars, voiceVars, pending, revision, throwing >>

\* The two pure functions on their own, on every input of the bounded sets,
\* in an App mounted on any of the stores.
InitFunctions ==
    /\ Mounted(Stores, StorageFailures)
    /\ currentUser = << >>
    /\ selectedGrievance = << >>
    /\ rejectionModalId = << >>
    /\ isVoiceAssistantOpen = FALSE
    /\ step = "idle"
    /\ parsedData = NoParsedData
    /\ transcript = ""
    /\ error = ""
    /\ capturing = FALSE
    /\ locating = 0
    /\ documents = << >>
    /\ location = << >>
    /\ trail = << >>
    /\ pending = << >>
    /\ submitResult = "none"
    /\ revision = 0
    /\ probe \in {[fn |-> "stringSimilarity", args |-> << a, b >>, done |-> FALSE,
                    result |-> << 0, 1 >>] : a \in Strings, b \in Strings}
                 \cup {[fn |-> "reconcileDepartment", args |-> << d >>, done |-> FALSE,
                        result |-> ""] : d \in AiDepartments}

NextFunctions ==
    \/ EvalStringSimilarity
    \/ EvalReconcileDepartment

SpecFunctions == InitFunctions /\ [][NextFunctions]_vars

\* The account store on its own: registrations, logins, profile edits and
\* password changes.
NextUsers ==
    \/ Session
    \/ \E form \in AdminLoginForms : Login(form)
    \/ \E form \in RegistrationForms \cup AdminRegistrationForms : Register(form)
    \/ \E name \in ProfileNames \cup {currentUser[i].name : i \in 1..Len(currentUser)},
          email \in ProfileEmails \cup {currentUser[i].email : i \in 1..Len(currentUser)} :
          \/ \E phone \in ProfilePhones : UserProfileSave(name, email, phone)
          \/ AdminInfoSave(name, email)
    \/ \E form \in PasswordForms : AdminPasswordSave(form)

SpecUsers == Init /\ [][NextUsers]_vars

\* The intake of grievances with the attachments selected in the upload areas
\* and the draft of the voice assistant edited before it is confirmed.
NextIntake ==
    \/ Session
    \/ \E selection \in FormSelections :
          FormSubmit(DEPARTMENTS[1], DescLightA, selection, NoLocation)
    \/ \E k \in 1..Len(pending), isSpam \in SpamVerdicts : FormSpamChecked(k, isSpam)
    \/ \E k \in 1..Len(pending) : FormReadsDone(k)
    \/ VoiceOpen
    \/ VoiceClose
    \/ \E started \in BOOLEAN : VoiceStart(started)
    \/ \E text \in SpokenTranscripts : VoiceResult(text)
    \/ VoiceRecognitionEnd
    \/ VoiceRecognitionError("no-speech")
    \/ \E response \in AiAnswers : VoiceParsed(response)
    \/ VoiceEditDescription("   ")
    \/ VoiceConfirm(FALSE)
    \/ \E files \in VoiceSelections(documents) : VoiceFilesSelected(files)
    \/ VoiceSubmit
    \/ \E k \in 1..Len(pending) : VoiceSubmitDone(k)

SpecIntake == InitVoice /\ [][NextIntake]_vars

\* Two administrators of different departments use the portal one after the
\* other: each reviews the grievances of the own table and requests solutions,
\* while the storage may fill up.
NextScope ==
    \/ Session
    \/ StorageChange(StorageKeys)
    \/ \E form \in AdminRegistrationForms : Register(form)
    \/ \E form \in AdminLoginForms : Login(form)
    \/ AdminPortal
    \/ GetAiSolution
    \/ \E k \in 1..Len(pending), solution \in Solutions : AiSolutionDone(k, solution)

SpecScope == Init /\ [][NextScope]_vars


(* ---------------------------------------------------------------------- *)
(* Properties                                                               *)
(* ---------------------------------------------------------------------- *)
\* s is an initial segment of t.
IsPrefix(s, t) == Len(s) <= Len(t) /\ SubSeq(t, 1, Len(s)) = s

\* The grievance of a collection with the given id, << >> when there is none.
ById(gs, id) == Find(gs, LAMBDA g : g.id = id)

\* The calls of handleStatusChange the admin portal can make in this state:
\* the two buttons of the detail view and the submit of the rejection modal.
StatusChangeCalls ==
    {[id |-> selectedGrievance[i].id, newStatus |-> s, reason |-> Undefined, notes |-> Undefined] :
        i \in 1..Len(selectedGrievance), s \in {UNDER_REVIEW, APPROVED}}
    \cup
    {[id |-> rejectionModalId[i], newStatus |-> REJECTED, reason |-> f.reason, notes |-> f.notes] :
        i \in 1..Len(rejectionModalId), f \in RejectionForms}

\* This step is the call c of handleStatusChange.
IsStatusChange(c) ==
    IF c.newStatus = REJECTED
    THEN RejectionSubmit(c.reason, c.notes)
    ELSE DetailStatusChange(c.newStatus)

\* C1: once a grievance is Approved or Rejected, no status-change operation
\* of the admin detail view gives it another status.
TerminalStatusesStay ==
    [][\A c \in StatusChangeCalls :
          IsStatusChange(c) =>
              \A i \in 1..Len(grievances) :
                  grievances[i].status \in {APPROVED, REJECTED}
                      => /\ ById(grievances', grievances[i].id) # << >>
                         /\ ById(grievances', grievances[i].id)[1].status = grievances[i].status]_vars

\* The drafts with which this state's handlers can call handleGrievanceSubmit.
DraftsInFlight ==
    {pending[k].draft : k \in Suspended("form") \cup Suspended("voice")}
    \cup {Draft(currentUser[i], parsedData.organization, parsedData.description,
                documents, location) : i \in 1..Len(currentUser)}

\* This step calls handleGrievanceSubmit with the draft.
CallsHandleGrievanceSubmit(draft) ==
    /\ submitResult' # "none"
    /\ \/ \E k \in Suspended("form") \cup Suspended("voice") :
             /\ pending[k].draft = draft
             /\ \/ FormSpamChecked(k, FALSE)
                \/ FormReadsDone(k)
                \/ VoiceSubmitDone(k)
       \/ /\ currentUser # << >>
          /\ draft = VoiceDraft
          /\ VoiceSubmit

\* C2: a call of handleGrievanceSubmit whose draft is more than 0.85 similar
\* to a grievance of the same complainant in the collection returns false and
\* leaves the collection unchanged.
DuplicateRejected ==
    [][\A draft \in DraftsInFlight :
          (CallsHandleGrievanceSubmit(draft) /\ IsDuplicate(grievances, draft))
              => (submitResult' = "false" /\ grievances' = grievances)]_vars

\* C3: a status change alters misuse strikes if and only if it rejects for the
\* false-complaint reason; then the user with the complainant's email gains
\* exactly one strike and no other counter changes; any other status change
\* leaves the users collection unchanged.
StrikeIffFalseComplaint ==
    [][\A c \in StatusChangeCalls :
          (IsStatusChange(c) /\ ById(grievances, c.id) # << >>) =>
              LET email == ById(grievances, c.id)[1].complainantEmail
              IN  IF c.newStatus = REJECTED /\ c.reason = rejectionReasonFalse
                  THEN /\ Len(users') = Len(users)
                       /\ \E i \in 1..Len(users) :
                             /\ users[i].email = email
                             /\ Strikes(users'[i]) = Strikes(users[i]) + 1
                       /\ \A i \in 1..Len(users) :
                             users[i].email # email => users'[i] = users[i]
                  ELSE users' = users]_vars

\* The history entry the claim C4 expects a status change to append.
ExpectedEntry(c) ==
    [status |-> c.newStatus,
     date |-> Today,
     notes |-> IF c.notes \in {Undefined, ""}
               THEN "Status updated to " \o c.newStatus \o " by admin."
               ELSE c.notes,
     rejectionReason |-> c.reason]

\* C4: handleStatusChange on an id of the collection appends exactly one
\* history entry to that grievance (the new status, the reason, and the notes
\* or the default note when none are given), sets its status to the new
\* status and leaves every other grievance unchanged.
TransitionPostcondition ==
    [][\A c \in StatusChangeCalls :
          (IsStatusChange(c) /\ ById(grievances, c.id) # << >>) =>
              /\ Len(grievances') = Len(grievances)
              /\ \A i \in 1..Len(grievances) :
                    IF grievances[i].id = c.id
                    THEN /\ grievances'[i].status = c.newStatus
                         /\ grievances'[i].history
                                = Append(grievances[i].history, ExpectedEntry(c))
                         /\ grievances'[i].id = c.id
                         /\ grievances'[i].description = grievances[i].description
                         /\ grievances'[i].complainantEmail = grievances[i].complainantEmail
                    ELSE grievances'[i] = grievances[i]]_vars

\* A rejection with typed notes and one without notes have both been recorded.
TransitionWitness ==
    \E i \in 1..Len(grievances), j \in 1..Len(grievances) :
        /\ Len(grievances[i].history) >= 2
        /\ grievances[i].history[Len(grievances[i].history)].notes = "no evidence"
        /\ grievances[i].history[Len(grievances[i].history)].rejectionReason = rejectionReasonFalse
        /\ grievances[i].status = REJECTED
        /\ grievances[j].status = UNDER_REVIEW
        /\ grievances[j].history[Len(grievances[j].history)].notes
              = "Status updated to Under Review by admin."
        /\ grievances[j].id = "GRV004"

\* C5: every grievance has at least one history entry and the status of its
\* last history entry is its status.
HistoryMatchesStatus ==
    \A i \in 1..Len(grievances) :
        /\ Len(grievances[i].history) >= 1
        /\ grievances[i].history[Len(grievances[i].history)].status = grievances[i].status

\* A grievance filed through the form has been approved.
HistoryWitness ==
    /\ Len(grievances) = 5
    /\ grievances[1].status = APPROVED
    /\ Len(grievances[1].history) = 2
    /\ grievances[1].complainantEmail = MOCK_USER_CITIZEN.email

\* C6: history is append-only: while localStorage accepts every write, the
\* history a grievance has in one state is an initial segment of its history
\* in the next, also when a request started before a transition completes
\* after it.
HistoryAppendOnly ==
    [][throwing = {} =>
          \A i \in 1..Len(grievances) :
              /\ ById(grievances', grievances[i].id) # << >>
              /\ IsPrefix(grievances[i].history,
                          ById(grievances', grievances[i].id)[1].history)
              /\ (ById(grievances', grievances[i].id)[1].history = grievances[i].history
                     => ById(grievances', grievances[i].id)[1].status = grievances[i].status)]_vars

\* C7: a successful handleGrievanceSubmit adds one record, with status Filed
\* and a history of exactly one Filed entry, and the collection grows by one.
CreationPostcondition ==
    [][submitResult' = "true" =>
          /\ Len(grievances') = Len(grievances) + 1
          /\ grievances'[1].status = FILED
          /\ Len(grievances'[1].history) = 1
          /\ grievances'[1].history[1].status = FILED]_vars

\* C8: in every step taken while localStorage accepts every write, the misuse
\* strikes of the user record with a given email do not decrease, and they
\* increase only when the step is a rejection for the false-complaint reason.
StrikesMonotone ==
    [][throwing = {} =>
          \A i \in 1..Len(users) :
              \E j \in 1..Len(users') :
                  /\ users'[j].email = users[i].email
                  /\ Strikes(users'[j]) >= Strikes(users[i])
                  /\ Strikes(users'[j]) > Strikes(users[i])
                        => \E c \in StatusChangeCalls :
                              /\ c.newStatus = REJECTED
                              /\ c.reason = rejectionReasonFalse
                              /\ IsStatusChange(c)]_vars

\* 'GRV' followed by 1, 2, ... padded to three digits.
SequentialIds ==
    << "GRV001", "GRV002", "GRV003", "GRV004", "GRV005", "GRV006", "GRV007", "GRV008", "GRV009" >>

\* C9: the ids of the grievances of the collection are pairwise distinct: a
\* collection of n records holds the ids 'GRV' followed by 1 .. n, the record
\* created on it carrying n + 1.
IdsDistinct ==
    /\ \A i \in 1..Len(grievances), j \in 1..Len(grievances) :
          i # j => grievances[i].id # grievances[j].id
    /\ Len(grievances) <= Len(SequentialIds)
          => {grievances[i].id : i \in 1..Len(grievances)}
                = {SequentialIds[n] : n \in 1..Len(grievances)}

\* Two submissions have run one after the other, each to completion.
TwoCreationsWitness ==
    /\ Len(grievances) = 6
    /\ pending = << >>
    /\ grievances[1].id = "GRV006"
    /\ grievances[2].id = "GRV005"

\* C10: a submission that passes the duplicate check and completes keeps
\* every grievance of the collection, whichever submission completed before
\* it, and adds its own.
SubmissionsKeepCollection ==
    [][\A draft \in DraftsInFlight :
          (CallsHandleGrievanceSubmit(draft) /\ submitResult' = "true") =>
              /\ \A i \in 1..Len(grievances) :
                    \E j \in 1..Len(grievances') : grievances'[j] = grievances[i]
              /\ \E j \in 1..Len(grievances') :
                    /\ grievances'[j].description = draft.description
                    /\ grievances'[j].complainantEmail = draft.complainantEmail]_vars

\* The number of bigrams two strings share, counted with multiplicity: each
\* bigram as often as it occurs in both.
SharedBigrams(a, b) ==
    LET occurrences(s, bg) == Cardinality({i \in 1..(Len(s) - 1) : Bigram(s, i) = bg})
    IN  Cardinality({pair \in {Bigram(a, i) : i \in 1..(Len(a) - 1)} \X (1..Len(a)) :
                        /\ pair[2] <= occurrences(a, pair[1])
                        /\ pair[2] <= occurrences(b, pair[1])})

\* The Sorensen-Dice value of two strings as a fraction, on the strings
\* stripped of whitespace and lower-cased.
DiceReference(str1, str2) ==
    LET a == Normalize(str1)
        b == Normalize(str2)
    IN  IF a = b THEN << 1, 1 >>
        ELSE IF a = << >> \/ b = << >> THEN << 0, 1 >>
        ELSE << 2 * SharedBigrams(a, b), (Len(a) - 1) + (Len(b) - 1) >>

\* C19: stringSimilarity(a, b) is the Sorensen-Dice value of the stripped,
\* lower-cased strings: 1 when both are empty or equal, 0 when exactly one is
\* empty, else twice the number of shared bigrams over the number of bigrams of
\* both.
SimilarityMatchesReference ==
    (probe.fn = "stringSimilarity" /\ probe.done)
        => probe.result = DiceReference(probe.args[1], probe.args[2])

\* The score of 'aab' and 'aAa' has been computed: the second 'aa' of the
\* latter finds the one 'aa' of the former used up.
SimilarityWitness ==
    /\ probe.fn = "stringSimilarity"
    /\ probe.done
    /\ probe.args = << << "a", "a", "b" >>, << "a", "A", "a" >> >>
    /\ probe.result = << 2, 4 >>

\* C20: stringSimilarity returns a number between 0 and 1 on every pair of
\* strings, also on two different strings of one character each.
SimilarityBounded ==
    (probe.fn = "stringSimilarity" /\ probe.done)
        => /\ probe.result[2] # 0
           /\ 0 <= probe.result[1]
           /\ probe.result[1] <= probe.result[2]

\* The department d and the name of the list are the same up to case, or one
\* contains the other up to case.
NamesAgree(d, name) ==
    \/ StringIncludes(LowerChars(CharsOf(name)), LowerChars(CharsOf(d)))
    \/ StringIncludes(LowerChars(CharsOf(d)), LowerChars(CharsOf(name)))

\* C17: a non-empty department of the AI response is returned as it is when it
\* is a name of the list; otherwise the first name of the list, in list order,
\* that contains it or is contained in it up to case is returned; otherwise ''
\* ('electricity board' gives 'Electricity Board', 'Sanitation Dept' gives '').
ReconciliationMatchesRule ==
    (probe.fn = "reconcileDepartment" /\ probe.done /\ probe.args[1] # "") =>
        LET d == probe.args[1]
            agreeing == {i \in 1..Len(DEPARTMENTS) : NamesAgree(d, DEPARTMENTS[i])}
        IN  /\ IF \E i \in 1..Len(DEPARTMENTS) : DEPARTMENTS[i] = d
               THEN probe.result = d
               ELSE IF agreeing # {}
               THEN \E i \in agreeing :
                       /\ \A j \in agreeing : i <= j
                       /\ probe.result = DEPARTMENTS[i]
               ELSE probe.result = ""
            /\ d = "electricity board" => probe.result = "Electricity Board"
            /\ d = "Sanitation Dept" => probe.result = ""
            /\ d = "Department" => probe.result = "Public Works Department"

\* A department that contains a name of the list has been reconciled to it.
ReconciliationWitness ==
    /\ probe.fn = "reconcileDepartment"
    /\ probe.done
    /\ probe.args[1] = "City Transport Department Office"
    /\ probe.result = "Transport Department"

\* The voice handlers suspended at their attachment reads.
VoiceSubmissions == Suspended("voice")

\* C11: closing the voice modal stops the speech capture, and a submission of
\* the closed modal, whose attachment reads or create call were still in
\* flight, adds no grievance afterwards.
ClosedSessionAddsNothing ==
    [][/\ VoiceClose => ~capturing'
       /\ \A k \in VoiceSubmissions :
             (VoiceSubmitDone(k) /\ ~pending[k].mounted) => grievances' = grievances]_vars

\* The four steps a session passes before it submits.
StepsBeforeSubmit == << "listening", "processing", "confirming", "uploading" >>

\* C12: the step becomes processing only from listening, confirming only from
\* processing, uploading or submitting, uploading only from confirming and
\* submitting only from uploading; a session calls handleGrievanceSubmit only
\* after it has entered listening, processing, confirming and uploading in
\* that order.
StepOrder ==
    [][/\ (step' = "processing" /\ step # "processing") => step = "listening"
       /\ (step' = "confirming" /\ step # "confirming")
             => step \in {"processing", "uploading", "submitting"}
       /\ (step' = "uploading" /\ step # "uploading") => step = "confirming"
       /\ (step' = "submitting" /\ step # "submitting") => step = "uploading"
       /\ submitResult' # "none" =>
             \/ /\ VoiceSubmit
                /\ IsPrefix(StepsBeforeSubmit, trail)
             \/ \E k \in VoiceSubmissions :
                   /\ VoiceSubmitDone(k)
                   /\ IsPrefix(StepsBeforeSubmit, pending[k].trail)]_vars

\* A session that has entered the four steps in order is submitting with an
\* attachment.
StepOrderWitness ==
    /\ isVoiceAssistantOpen
    /\ step = "submitting"
    /\ trail = Append(StepsBeforeSubmit, "submitting")
    /\ \E k \in VoiceSubmissions : pending[k].mounted /\ pending[k].draft.documents = OnePhoto

\* C13 as stated: in the confirming step the re-record button moves the
\* pipeline to the listening step, the capture running again.
RetryListensAgain ==
    [][VoiceRetry => (step' = "listening" /\ capturing')]_vars

\* C13: in the confirming step the re-record button moves the pipeline to the
\* idle step and clears the transcript and the error; the capture runs again
\* only once the user starts it from there.
RetryReturnsToIdle ==
    [][/\ VoiceRetry => /\ step = "confirming"
                        /\ step' = "idle"
                        /\ transcript' = ""
                        /\ error' = ""
                        /\ ~capturing'
       /\ (capturing' /\ ~capturing) => (VoiceStart(TRUE) /\ step = "idle" /\ step' = "listening")]_vars

\* The re-record button has been pressed on a parsed draft.
RetryWitness ==
    /\ isVoiceAssistantOpen
    /\ step = "idle"
    /\ trail = << "listening", "processing", "confirming" >>
    /\ parsedData.description = DescLightB
    /\ transcript = ""

\* The transcript has a character that is not whitespace.
HasNonWhitespace(tr) == \E i \in 1..Len(CharsOf(tr)) : CharsOf(tr)[i] \notin Whitespace

\* C14: when the capture ends in the listening step on a transcript that is
\* empty or all whitespace, the step becomes idle and the parser is not
\* invoked; the parser is invoked only on a transcript with a character that
\* is not whitespace.
BlankTranscriptSkipsParser ==
    [][/\ (VoiceRecognitionEnd /\ step = "listening" /\ ~HasNonWhitespace(transcript))
             => step' = "idle"
       /\ (step' = "processing" /\ step # "processing") => HasNonWhitespace(transcript)]_vars

\* The capture has ended on a transcript of whitespace only.
BlankTranscriptWitness ==
    /\ isVoiceAssistantOpen
    /\ step = "idle"
    /\ ~capturing
    /\ transcript = " \t\n"
    /\ trail = << "listening" >>

\* The reason parseGrievanceFromText reports for a failed AI call.
ReportedReason(response) ==
    IF response.outcome = "noApiKey"
    THEN "AI services are currently unavailable."
    ELSE "Could not understand the grievance. Please try again."

\* C15: when the parse of the processing step reports a failure (no API key,
\* a thrown error, a response that cannot be parsed), the step becomes idle,
\* the error text is the reported reason and no grievance is created; the step
\* becomes confirming only when the parse succeeds.
ParseFailureReturnsToIdle ==
    [][(step = "processing" /\ step' # "processing") =>
          /\ \A response \in AiResponses :
                VoiceParsed(response) =>
                    IF response.outcome # "json"
                    THEN /\ step' = "idle"
                         /\ error' = ReportedReason(response)
                         /\ grievances' = grievances
                         /\ submitResult' = "none"
                    ELSE step' = "confirming"
          /\ step' = "confirming" => \E response \in AiAnswers : VoiceParsed(response)]_vars

\* A parse has failed for the missing API key.
ParseFailureWitness ==
    /\ isVoiceAssistantOpen
    /\ step = "idle"
    /\ error = "AI services are currently unavailable."
    /\ trail = << "listening", "processing" >>

\* This step is the return of the create call to handleSubmit of the open
\* voice modal: at once for a draft without attachments, else when the reads
\* of the suspended handler resolve.
VoiceCreateReturns ==
    /\ isVoiceAssistantOpen
    /\ submitResult' # "none"
    /\ \/ step = "uploading" /\ VoiceSubmit
       \/ \E k \in VoiceSubmissions :
             pending[k].mounted /\ step = "submitting" /\ VoiceSubmitDone(k)

\* C16: when the create call of the voice modal fails as a duplicate, the step
\* becomes confirming, not idle, the duplicate error is set, the department
\* and the description as edited stay, and the collection is unchanged; when
\* it succeeds, the modal is closed.
DuplicateReturnsToConfirming ==
    [][VoiceCreateReturns =>
          IF submitResult' = "false"
          THEN /\ step' = "confirming"
               /\ error' = ErrorDuplicate
               /\ parsedData' = parsedData
               /\ isVoiceAssistantOpen'
               /\ grievances' = grievances
          ELSE ~isVoiceAssistantOpen']_vars

\* An edited draft has been refused as a duplicate of the grievance an earlier
\* session filed.
DuplicateWitness ==
    /\ isVoiceAssistantOpen
    /\ step = "confirming"
    /\ submitResult = "false"
    /\ error = ErrorDuplicate
    /\ parsedData.organization = DEPARTMENTS[4]
    /\ parsedData.description = DescLightA
    /\ Len(grievances) = 5
    /\ pending = << >>
    /\ trail = Append(StepsBeforeSubmit, "submitting")

\* C18: when the department of the AI response agrees with no name of the
\* list, the parse is not rejected and the draft of the confirming step has an
\* empty department, which the user has to pick.
UnmatchedDepartmentLeftEmpty ==
    [][\A response \in AiAnswers :
          (/\ VoiceParsed(response)
           /\ \A i \in 1..Len(DEPARTMENTS) : ~NamesAgree(response.department, DEPARTMENTS[i]))
              => (step' = "confirming" /\ parsedData'.organization = "")]_vars

\* C21: stringSimilarity(a, b) = stringSimilarity(b, a) for every pair of
\* strings, and so the two orders give the same duplicate verdict.
SimilaritySymmetric ==
    (probe.fn = "stringSimilarity" /\ probe.done) =>
        /\ probe.result = stringSimilarityOfChars(probe.args[2], probe.args[1])
        /\ ExceedsThreshold(probe.result)
              = ExceedsThreshold(stringSimilarityOfChars(probe.args[2], probe.args[1]))

\* The score of 'ab ' and 'aAb' has been computed: strings of different
\* lengths that share one bigram.
SymmetryWitness ==
    /\ probe.fn = "stringSimilarity"
    /\ probe.done
    /\ probe.args = << << "a", "b", " " >>, << "a", "A", "b" >> >>
    /\ probe.result[1] > 0
    /\ probe.result[1] < probe.result[2]

\* C22: handleStatusChange with an id that no grievance of the collection has
\* changes neither the grievances nor the users, also when it rejects for the
\* false-complaint reason.
NotFoundChangesNothing ==
    [][\A c \in StatusChangeCalls :
          (IsStatusChange(c) /\ ById(grievances, c.id) = << >>)
              => (grievances' = grievances /\ users' = users)]_vars

\* The rejection modal is open on a grievance that the collection has lost
\* since the detail view was opened.
NotFoundWitness ==
    /\ rejectionModalId # << >>
    /\ ById(grievances, rejectionModalId[1]) = << >>
    /\ LoggedIn(ADMIN)

\* The solution requests suspended at their await.
SolutionRequests == Suspended("ai")

\* C23: handleAddSolution(id, text) on the collection its request was made on
\* sets the aiSolution of the grievance with that id to text and changes
\* nothing else: every other field of that grievance, every other grievance
\* and the users stay as they are.
AddSolutionFrame ==
    [][\A k \in SolutionRequests, solution \in Solutions :
          (AiSolutionDone(k, solution) /\ pending[k].snap = grievances) =>
              /\ Len(grievances') = Len(grievances)
              /\ \A i \in 1..Len(grievances) :
                    grievances'[i] = IF grievances[i].id = pending[k].id
                                     THEN [grievances[i] EXCEPT !.aiSolution = solution]
                                     ELSE grievances[i]
              /\ users' = users]_vars

\* GRV001 carries an attached solution and has been put under review.
AddSolutionWitness ==
    /\ Len(grievances) = 4
    /\ grievances[1].aiSolution = "Resurface the road."
    /\ grievances[1].status = UNDER_REVIEW
    /\ Len(grievances[1].history) = 2
    /\ revision = 2

\* C24: once the aiSolution of a grievance holds a value, no completion of a
\* generate-solution action of the admin changes that value.
SolutionSetOnce ==
    [][\A k \in SolutionRequests, solution \in Solutions :
          AiSolutionDone(k, solution) =>
              \A i \in 1..Len(grievances) :
                  grievances[i].aiSolution \notin {Undefined, ""}
                      => /\ ById(grievances', grievances[i].id) # << >>
                         /\ ById(grievances', grievances[i].id)[1].aiSolution
                               = grievances[i].aiSolution]_vars

\* Two e-mail addresses are equal when letter case is ignored.
SameEmail(e1, e2) == ToLowerCase(e1) = ToLowerCase(e2)

\* The e-mail addresses of a users array are pairwise different, letter case
\* ignored.
EmailsUnique(us) ==
    \A i \in 1..Len(us), j \in 1..Len(us) : i # j => ~SameEmail(us[i].email, us[j].email)

\* C25: no two user records have e-mail addresses that are equal ignoring
\* letter case, whatever registrations, logins, profile edits and password
\* changes have run; a registration with an address some record has, ignoring
\* case, leaves users unchanged.
EmailUniqueness ==
    [][/\ EmailsUnique(users)
       /\ EmailsUnique(users')
       /\ \A form \in RegistrationForms :
             (Register(form) /\ \E i \in 1..Len(users) : SameEmail(users[i].email, form.email))
                 => users' = users]_vars

\* Bob has registered and Jane has saved the profile form with Bob's address.
EmailUniquenessWitness ==
    /\ Len(users) = 3
    /\ users[3].email = "bob@example.com"
    /\ users[3].name = "Jane Doe"
    /\ users[1].email = "jane.doe@example.com"

\* C26: the attachments of every grievance of the collection have pairwise
\* distinct names, whether it was filed through the form or through the upload
\* step of the voice assistant.
AttachmentNamesDistinct ==
    \A g \in 1..Len(grievances) :
        \A i, j \in 1..Len(grievances[g].documents) :
            grievances[g].documents[i].name = grievances[g].documents[j].name => i = j

\* C27: no grievance of the collection has an empty or whitespace-only
\* description, whether it was filed through the form or through the voice
\* assistant with its draft edited in the confirming step.
DescriptionsNotBlank ==
    \A g \in 1..Len(grievances) :
        HasNonWhitespace(grievances[g].description)

\* Two texts whose similarity exceeds the duplicate threshold.
TooSimilar(ta, tb) == ExceedsThreshold(stringSimilarity(ta, tb))

IsProfileEdit ==
    \/ \E name \in ProfileNames \cup {currentUser[i].name : i \in 1..Len(currentUser)},
          email \in ProfileEmails \cup {currentUser[i].email : i \in 1..Len(currentUser)} :
          \/ \E phone \in ProfilePhones : UserProfileSave(name, email, phone)
          \/ AdminInfoSave(name, email)
    \/ \E form \in PasswordForms : AdminPasswordSave(form)

\* C29: a profile edit by a user whose session holds the record users[own]
\* leaves every other record of users unchanged, and afterwards currentUser is
\* a record of users.
ProfileEditFrame ==
    [][\A own \in 1..Len(users) :
          (IsProfileEdit /\ currentUser = << users[own] >>)
              => /\ Len(users') = Len(users)
                 /\ \A j \in 1..Len(users) : j # own => users'[j] = users[j]
                 /\ \E j \in 1..Len(users') : currentUser' = << users'[j] >>]_vars

\* A status transition, a rejection or a solution attachment takes effect.
IsAdminWrite ==
    \/ \E newStatus \in {UNDER_REVIEW, APPROVED} : DetailStatusChange(newStatus)
    \/ \E form \in RejectionForms : RejectionSubmit(form.reason, form.notes)
    \/ \E k \in 1..Len(pending), solution \in Solutions : AiSolutionDone(k, solution)

\* C30: a status transition, a rejection or a solution attachment that takes
\* effect during an admin's session leaves every grievance of another
\* department as it was.
AdminScope ==
    [][(LoggedIn(ADMIN) /\ IsAdminWrite)
          => \A i \in 1..Len(grievances) :
                grievances[i].organization # currentUser[1].department
                    => ById(grievances', grievances[i].id) = << grievances[i] >>]_vars

=============================================================================
